---- MODULE Spec2Model ----
(***************************************************************************)
(* Finance_Monitor: the cache-aside orchestrators of services/ over the    *)
(* Supabase store of database/supabase_service.py.                         *)
(*                                                                         *)
(* Time is counted in seconds of UTC.  A stored timestamp is the instant   *)
(* it denotes; the form in which the store hands it back (naive ISO text   *)
(* or offset-qualified ISO text) is a property of the deployment (env).    *)
(* Prices are counted in cents, percentages in hundredths of a percent.    *)
(***************************************************************************)
EXTENDS Integers, Sequences, FiniteSets, TLC

VARIABLES
    now,            \* the wall clock (UTC seconds)
    env,            \* deployment: form of returned timestamps, local UTC offset
    news,           \* table news: sequence of rows, in insertion order
    company_info,   \* table company_info: upper-cased ticker -> row or None
    stocks,         \* table stocks: sequence of Quote rows, in insertion order
    ai_insights,    \* table ai_insights: sequence of rows, in insertion order
    calls,          \* the calls in progress: per caller, its position and locals
    last            \* the last call made: its instant, inputs, outcomes and result

vars == <<now, env, news, company_info, stocks, ai_insights, calls, last>>

----------------------------------------------------------------------------
(* Bounds of the model *)

MaxNews == 2
MaxStocks == 2
MaxInsights == 2

\* The instants at which the clock is sampled: 200 s lies within every TTL
\* (300 s, 60 min, 24 h) and 90000 s is more than 24 hours after both
\* earlier instants.
Instants == {0, 200, 90000}

\* The values of the `limit` argument
Limits == {1, 2}

(* Program constants *)

DefaultMaxAgeMinutes == 60
ForceFresh == 0
UseAnyCache == -1
CompanyMaxAgeHours == 24
DefaultMaxAgeSeconds == 300
\* timedelta(days=days), in seconds
SecondsPerDay == 86400
\* delete_old_news(days=7)
DefaultDays == 7

----------------------------------------------------------------------------
(* Values *)

None == [none |-> TRUE]

\* A timestamp no datetime.fromisoformat call can parse (missing, empty or
\* malformed text).
BadStamp == -1

Min(a, b) == IF a <= b THEN a ELSE b

Range(s) == {s[i] : i \in DOMAIN s}

\* str.upper() on the ticker symbols used here
Upper(t) ==
    CASE t = "meta" -> "META"
      [] t = "aapl" -> "AAPL"
      [] t = "daily" -> "DAILY"
      [] OTHER -> t

InputTickers == {"META", "meta", "AAPL"}
StoreTickers == {Upper(t) : t \in InputTickers}

\* The callers that may have a call in progress, and a caller with none
Callers == {1, 2}
Idle == [pc |-> "idle"]

\* The outcome of a call: a returned value, or an exception that left it.
Ret(v) == [exc |-> FALSE, val |-> v]
Raise == [exc |-> TRUE, val |-> None]

Envs ==
    { [tsForm |-> "offset", localOffset |-> 0],
      [tsForm |-> "naive",  localOffset |-> 0],
      [tsForm |-> "naive",  localOffset |-> 7200] }

----------------------------------------------------------------------------
(* datetime: parsing a stored stamp and taking the clock *)

\* A parser that reads a text it cannot parse as the epoch
fromisoformat_Lenient(stamp) ==
    Ret([t |-> IF stamp = BadStamp THEN 0 ELSE stamp, aware |-> env.tsForm = "offset"])

\* datetime.fromisoformat(text): an aware datetime when the text carries an
\* offset ('+00:00', or 'Z' replaced by it), a naive one otherwise; raises on
\* text it cannot parse.
fromisoformat(stamp) ==
    IF stamp = BadStamp
    THEN Raise
    ELSE Ret([t |-> stamp, aware |-> env.tsForm = "offset"])

\* datetime.utcnow(): naive, UTC
utcnow == [t |-> now, aware |-> FALSE]

\* datetime.now(tz): aware UTC-based when tz is given, naive local time when
\* tz is None
datetime_now(aware) ==
    IF aware
    THEN [t |-> now, aware |-> TRUE]
    ELSE [t |-> now + env.localOffset, aware |-> FALSE]

\* a - b on datetimes, in seconds: TypeError when one is aware and the other
\* naive
datetime_sub(a, b) ==
    IF a.aware # b.aware THEN Raise ELSE Ret(a.t - b.t)

----------------------------------------------------------------------------
(* The runs explored: the kinds of data share no table, and a run works on *)
(* one kind once the program has written a row of it.                      *)

Written(table) == \E i \in DOMAIN table : table[i].fetched_at # BadStamp

\* The last call left every table as it found it.  What may follow such a
\* call is what may follow the state it was made in (no operation reads
\* `last`), so a run is explored up to it and not beyond: every state of
\* the tables and the clock is still reached, through the calls that write.
ReadOnlyCall ==
    /\ last.op # "init"
    /\ "before" \in DOMAIN last =>
          last.before = CASE last.table = "news" -> news
                          [] last.table = "company_info" -> company_info
                          [] last.table = "stocks" -> stocks
                          [] last.table = "ai_insights" -> ai_insights

Continuing == ~ReadOnlyCall

NewsRun ==
    Continuing /\ company_info = {} /\ stocks = <<>> /\ ai_insights = <<>>
CompanyRun ==
    Continuing /\ ~Written(news) /\ stocks = <<>> /\ ai_insights = <<>>
QuoteRun ==
    Continuing /\ ~Written(news) /\ company_info = {} /\ ai_insights = <<>>
InsightRun ==
    Continuing /\ ~Written(news) /\ company_info = {} /\ stocks = <<>>

----------------------------------------------------------------------------
(* Store: table news (database/supabase_service.py) *)

\* The rows a query ordered by published_at descending and cut at `limit` may
\* return: the order of rows with equal published_at is the store's choice.
RecentOrders(table, limit) ==
    LET n == Min(limit, Len(table)) IN
    { idx \in [1..n -> 1..Len(table)] :
        /\ \A i, j \in 1..n :
             i < j => /\ idx[i] # idx[j]
                      /\ table[idx[i]].published_at >= table[idx[j]].published_at
        /\ \A k \in 1..Len(table) :
             (\A i \in 1..n : idx[i] # k) =>
                 \A i \in 1..n : table[k].published_at <= table[idx[i]].published_at }

\* get_recent_news without its try/except: a failed request raises.
get_recent_news_Raises(table, limit, ok) ==
    IF ~ok
    THEN {Raise}
    ELSE { Ret([i \in DOMAIN idx |-> table[idx[i]]]) :
             idx \in RecentOrders(table, limit) }

\* SupabaseService.get_recent_news: the possible outcomes of one call; `ok` is
\* whether the store request succeeds.  A failed request is caught and gives
\* the empty list.
get_recent_news(table, limit, ok) ==
    IF ~ok
    THEN {Ret(<<>>)}
    ELSE { Ret([i \in DOMAIN idx |-> table[idx[i]]]) :
             idx \in RecentOrders(table, limit) }

\* insert_news replacing the stored row of the same url.
insert_news_Upsert(table, article, ok) ==
    IF ~ok
    THEN table
    ELSE Append(SelectSeq(table, LAMBDA r : r.url # article.url),
                [title        |-> article.title,
                 summary      |-> article.summary,
                 url          |-> article.url,
                 published_at |-> article.published_at,
                 fetched_at   |-> now])

\* SupabaseService.insert_news: the table after the call.  The row is stamped
\* fetched_at = utcnow(); a failed request is caught and adds nothing.
insert_news(table, article, ok) ==
    IF ~ok
    THEN table
    ELSE Append(table, [title        |-> article.title,
                        summary      |-> article.summary,
                        url          |-> article.url,
                        published_at |-> article.published_at,
                        fetched_at   |-> now])

\* SupabaseService.delete_old_news: the rows whose published_at lies before
\* utcnow - days are deleted and counted; a failed request (caught) deletes
\* nothing and gives 0.
delete_old_news(table, days, ok) ==
    LET cutoff_date == utcnow.t - days * SecondsPerDay
        kept == SelectSeq(table, LAMBDA r : ~(r.published_at < cutoff_date))
    IN IF ~ok
       THEN [table |-> table, count |-> 0]
       ELSE [table |-> kept, count |-> Len(table) - Len(kept)]

\* The values of the `days` argument
Days == {1, DefaultDays}

DeleteOldNews ==
    /\ NewsRun
    /\ \E days \in Days, ok \in BOOLEAN :
        LET r == delete_old_news(news, days, ok)
        IN /\ news' = r.table
           /\ last' = [op     |-> "delete_old_news",
                       at     |-> now,
                       days   |-> days,
                       before |-> news,
                       table  |-> "news",
                       wr     |-> ok,
                       exc    |-> FALSE,
                       result |-> r.count]
    /\ UNCHANGED <<ai_insights, calls, now, env, company_info, stocks>>

----------------------------------------------------------------------------
(* News provider and normalizer (services/news_service.py) *)

\* Raw provider articles.  "" stands for a missing or empty field.
RawArticles ==
    { [title |-> "t1", description |-> "d1", url |-> "u1", publishedAt |-> -100],
      [title |-> "t2", description |-> "",   url |-> "u2", publishedAt |-> -200],
      [title |-> "",   description |-> "d3", url |-> "u3", publishedAt |-> -100] }

\* A batch holds at most `limit` articles (pageSize) and no article twice.
Batches(limit) ==
    UNION { { b \in [1..n -> RawArticles] :
                \A i, j \in 1..n : i # j => b[i] # b[j] } :
            n \in 0..Min(limit, Cardinality(RawArticles)) }

\* What the provider does when asked: the API key is not configured, the
\* HTTP client returns a body with status 'ok' and articles, it returns an
\* error body, or an exception leaves it.
NewsUpstream(limit) ==
    { [kind |-> "unconfigured", articles |-> <<>>],
      [kind |-> "raise", articles |-> <<>>],
      [kind |-> "error", articles |-> <<>>] }
    \cup { [kind |-> "ok", articles |-> b] : b \in Batches(limit) }

\* The provider is not asked.
NotAsked == [kind |-> "none", articles |-> <<>>]

\* str.strip() on the texts of the model: " " is a text of white space only
\* and " t4 " is "t4" with white space around it.
strip(text) ==
    CASE text = " " -> ""
      [] text = " t4 " -> "t4"
      [] OTHER -> text

\* Raw articles beyond RawArticles: padded texts, a url of white space
\* only, and a null `source` (the provider's normal source is an object).
PaddedArticles ==
    { [title |-> " t4 ", description |-> " ", url |-> "u4", publishedAt |-> -100],
      [title |-> "t5", description |-> "d5", url |-> " ", publishedAt |-> -100],
      [title |-> " ", description |-> "d6", url |-> "u6", publishedAt |-> -100],
      [title |-> "t7", description |-> "d7", url |-> "u7", publishedAt |-> -100,
       source |-> None] }

\* parse_news_article for source 'newsapi': title and description are
\* stripped, the url is taken as it is; None when title or url is empty, and
\* None when reading the source name raises (source is null).
parse_news_article(raw) ==
    LET title == strip(raw.title)
        summary == strip(raw.description)
        url == raw.url
    IN IF "source" \in DOMAIN raw /\ raw.source = None
       THEN None
       ELSE IF title = "" \/ url = ""
       THEN None
       ELSE [title        |-> title,
             summary      |-> IF summary = "" THEN "No summary available"
                              ELSE summary,
             url          |-> url,
             published_at |-> raw.publishedAt,
             ai_context   |-> IF summary = "" THEN <<title>>
                              ELSE <<title, summary>>]

\* _fetch_from_newsapi: the raw articles, [] on an error body or an exception
_fetch_from_newsapi(up) ==
    IF up.kind = "ok" THEN up.articles ELSE <<>>

RECURSIVE ParseAll(_)
ParseAll(raws) ==
    IF raws = <<>>
    THEN <<>>
    ELSE LET parsed == parse_news_article(Head(raws)) IN
         IF parsed = None
         THEN ParseAll(Tail(raws))
         ELSE <<parsed>> \o ParseAll(Tail(raws))

\* validate_news_api_config
validate_news_api_config(up) == up.kind # "unconfigured"

\* fetch_financial_news: [] when the API key is not configured, else the
\* parsed articles of the provider's batch
fetch_financial_news(up) ==
    IF ~validate_news_api_config(up)
    THEN <<>>
    ELSE ParseAll(_fetch_from_newsapi(up))

\* What the provider does when fetch_financial_news is called on its own:
\* as NewsUpstream, with batches drawn from all the raw articles.
FetchUpstream ==
    { [kind |-> "unconfigured", articles |-> <<>>],
      [kind |-> "raise", articles |-> <<>>],
      [kind |-> "error", articles |-> <<>>] }
    \cup { [kind |-> "ok", articles |-> b] :
             b \in UNION { { c \in [1..n -> RawArticles \cup PaddedArticles] :
                               \A i, j \in 1..n : i # j => c[i] # c[j] } :
                           n \in {0} \cup Limits } }

\* fetch_financial_news called on its own (tests/test_news_service.py); it reads no
\* table, and is made on the store as it starts.
FetchFinancialNews ==
    /\ NewsRun /\ ~Written(news)
    /\ \E up \in FetchUpstream :
        last' = [op      |-> "fetch_financial_news",
                 at      |-> now,
                 up      |-> up.kind,
                 raw     |-> up.articles,
                 fetched |-> TRUE,
                 exc     |-> FALSE,
                 result  |-> fetch_financial_news(up)]
    /\ UNCHANGED <<ai_insights, calls, now, env, news, company_info, stocks>>

----------------------------------------------------------------------------
(* News orchestrator (services/news_service.py) *)

MaxAgeMinutes == {DefaultMaxAgeMinutes, ForceFresh, UseAnyCache}

\* The loop of Step 4: one insert_news call per fresh article; wr[i] is
\* whether the i-th store request succeeds.
RECURSIVE InsertAll(_, _, _)
InsertAll(table, articles, wr) ==
    IF articles = <<>>
    THEN table
    ELSE InsertAll(insert_news(table, Head(articles), Head(wr)),
                   Tail(articles), Tail(wr))

\* NewsFetch marking the articles of a fallback as stale.
NewsFetch_Marked(cached, up, wr) ==
    LET fresh_news == fetch_financial_news(up) IN
    IF fresh_news = <<>>
    THEN IF cached # <<>>
         THEN [exc |-> FALSE,
               val |-> [i \in DOMAIN cached |-> [stale |-> TRUE] @@ cached[i]],
               path |-> "fallback", fetched |-> TRUE, table |-> news]
         ELSE [exc |-> FALSE, val |-> <<>>, path |-> "empty",
               fetched |-> TRUE, table |-> news]
    ELSE [exc |-> FALSE, val |-> fresh_news, path |-> "fresh",
          fetched |-> TRUE,
          table |-> InsertAll(news, fresh_news, wr)]

\* NewsFetch returning the fresh articles followed by the cached ones.
NewsFetch_Mixed(cached, up, wr) ==
    LET fresh_news == fetch_financial_news(up) IN
    IF fresh_news = <<>>
    THEN IF cached # <<>>
         THEN [exc |-> FALSE, val |-> cached, path |-> "fallback",
               fetched |-> TRUE, table |-> news]
         ELSE [exc |-> FALSE, val |-> <<>>, path |-> "empty",
               fetched |-> TRUE, table |-> news]
    ELSE [exc |-> FALSE, val |-> fresh_news \o cached, path |-> "fresh",
          fetched |-> TRUE,
          table |-> InsertAll(news, fresh_news, wr)]

\* NewsFetch without the fallback on the cached list: nothing fetched gives
\* the empty list.
NewsFetch_NoFallback(cached, up, wr) ==
    LET fresh_news == fetch_financial_news(up) IN
    IF fresh_news = <<>>
    THEN [exc |-> FALSE, val |-> <<>>,
          path |-> IF cached # <<>> THEN "fallback" ELSE "empty",
          fetched |-> TRUE, table |-> news]
    ELSE [exc |-> FALSE, val |-> fresh_news, path |-> "fresh",
          fetched |-> TRUE,
          table |-> InsertAll(news, fresh_news, wr)]

\* Steps 3 and 4 of get_news_with_cache: fetch, fall back on the cached list
\* when nothing came, else store each article and return the fresh list.
NewsFetch(cached, up, wr) ==
    LET fresh_news == fetch_financial_news(up) IN
    IF fresh_news = <<>>
    THEN IF cached # <<>>
         THEN [exc |-> FALSE, val |-> cached, path |-> "fallback",
               fetched |-> TRUE, table |-> news]
         ELSE [exc |-> FALSE, val |-> <<>>, path |-> "empty",
               fetched |-> TRUE, table |-> news]
    ELSE [exc |-> FALSE, val |-> fresh_news, path |-> "fresh",
          fetched |-> TRUE,
          table |-> InsertAll(news, fresh_news, wr)]

\* NewsCacheIsFresh without the use_any_cache alternative.
NewsCacheIsFresh_NoAnyCache(most_recent, max_age_minutes) ==
    LET fetched_at == fromisoformat(most_recent.fetched_at) IN
    IF fetched_at.exc
    THEN Raise
    ELSE LET age == datetime_sub(datetime_now(fetched_at.val.aware),
                                 fetched_at.val) IN
         IF age.exc
         THEN Raise
         ELSE Ret(age.val < max_age_minutes * 60)

\* The freshness test of Step 2 on the first cached article: the age in
\* seconds against max_age_minutes; raises when the stamp cannot be parsed.
NewsCacheIsFresh(most_recent, max_age_minutes) ==
    LET fetched_at == fromisoformat(most_recent.fetched_at) IN
    IF fetched_at.exc
    THEN Raise
    ELSE LET age == datetime_sub(datetime_now(fetched_at.val.aware),
                                 fetched_at.val) IN
         IF age.exc
         THEN Raise
         ELSE Ret(max_age_minutes = UseAnyCache
                  \/ age.val < max_age_minutes * 60)

NewsRaised ==
    [exc |-> TRUE, val |-> <<>>, path |-> "except", fetched |-> FALSE,
     table |-> news]

\* NewsTry without the force_fresh test.
NewsTry_NoForce(max_age_minutes, c0, up, wr) ==
    LET cached == c0.val IN
    IF c0.exc
    THEN NewsRaised
    ELSE IF cached # <<>>
         THEN LET fresh == NewsCacheIsFresh(cached[1], max_age_minutes) IN
              IF fresh.exc
              THEN NewsRaised
              ELSE IF fresh.val
                   THEN [exc |-> FALSE, val |-> cached, path |-> "hit",
                         fetched |-> FALSE, table |-> news]
                   ELSE NewsFetch(cached, up, wr)
         ELSE NewsFetch(cached, up, wr)

\* The try block of get_news_with_cache, from the outcome c0 of the first
\* store read.
NewsTry(max_age_minutes, c0, up, wr) ==
    LET force_fresh == max_age_minutes = ForceFresh
        cached == c0.val
    IN
    IF c0.exc
    THEN NewsRaised
    ELSE IF cached # <<>> /\ ~force_fresh
         THEN LET fresh == NewsCacheIsFresh(cached[1], max_age_minutes) IN
              IF fresh.exc
              THEN NewsRaised
              ELSE IF fresh.val
                   THEN [exc |-> FALSE, val |-> cached, path |-> "hit",
                         fetched |-> FALSE, table |-> news]
                   ELSE NewsFetch(cached, up, wr)
         ELSE NewsFetch(cached, up, wr)

\* The except block of get_news_with_cache:
\*   return db.get_recent_news(limit) if db.get_recent_news(limit) else []
NewsExcept(c1, c2) ==
    LET h == IF c1.exc THEN Raise
             ELSE IF c1.val # <<>> THEN c2 ELSE Ret(<<>>)
    IN [exc |-> h.exc, val |-> h.val, path |-> "except", fetched |-> FALSE,
        table |-> news]

NewsDone(limit, max_age_minutes, up, rd, c0, wr, r) ==
    /\ Len(r.table) <= MaxNews
    /\ news' = r.table
    /\ last' = [op              |-> "get_news_with_cache",
                at              |-> now,
                limit           |-> limit,
                max_age_minutes |-> max_age_minutes,
                up              |-> IF r.fetched THEN up.kind ELSE "none",
                before          |-> news,
                table          |-> "news",
                rd              |-> rd,
                cached          |-> c0.val,
                wr              |-> IF r.path = "fresh" THEN wr ELSE <<>>,
                reread          |-> IF "reread" \in DOMAIN r THEN r.reread ELSE <<>>,
                path            |-> r.path,
                fetched         |-> r.fetched,
                exc             |-> r.exc,
                result          |-> r.val]
    /\ UNCHANGED <<ai_insights, calls, now, env, company_info, stocks>>

\* get_news_with_cache.  The provider's answer and the outcomes of the store
\* writes are drawn when the try block reaches the fetch, the outcomes of the
\* two reads of the except block when it is entered.
get_news_with_cache(limit, max_age_minutes) ==
    \E rd \in BOOLEAN :
    \E c0 \in get_recent_news(news, limit, rd) :
        LET probe == NewsTry(max_age_minutes, c0, NotAsked, <<>>) IN
        IF probe.exc
        THEN \E rd1 \in BOOLEAN, rd2 \in BOOLEAN :
             \E c1 \in get_recent_news(news, limit, rd1),
                c2 \in get_recent_news(news, limit, rd2) :
                 NewsDone(limit, max_age_minutes, NotAsked, rd, c0, <<>>,
                          [reread |-> <<rd1, rd2>>] @@ NewsExcept(c1, c2))
        ELSE IF ~probe.fetched
             THEN NewsDone(limit, max_age_minutes, NotAsked, rd, c0, <<>>, probe)
             ELSE \E up \in NewsUpstream(limit) :
                  \E wr \in [1..Len(fetch_financial_news(up)) -> BOOLEAN] :
                      NewsDone(limit, max_age_minutes, up, rd, c0, wr,
                               NewsTry(max_age_minutes, c0, up, wr))

GetNews ==
    /\ NewsRun
    /\ \E limit \in Limits, max_age_minutes \in MaxAgeMinutes :
        get_news_with_cache(limit, max_age_minutes)

----------------------------------------------------------------------------
(* Store: table company_info (database/supabase_service.py) *)

\* SupabaseService.get_company_info: the possible outcomes of one call.  The
\* query filters on the upper-cased ticker and the first row is returned;
\* no row, or a failed request (caught), gives None.
get_company_info(table, ticker, ok) ==
    LET data == {r \in table : r.ticker = Upper(ticker)} IN
    IF ~ok \/ data = {}
    THEN {Ret(None)}
    ELSE {Ret(r) : r \in data}

\* insert_company_info inserting a row without replacing the ticker's row.
insert_company_info_Append(table, ticker, company_data, ok) ==
    IF ~ok
    THEN table
    ELSE table
         \cup { [ticker       |-> Upper(ticker),
                 company_name |-> company_data.company_name,
                 sector       |-> company_data.sector,
                 industry     |-> company_data.industry,
                 market_cap   |-> company_data.market_cap,
                 pe_ratio     |-> company_data.pe_ratio,
                 description  |-> company_data.description,
                 website      |-> company_data.website,
                 last_updated |-> now] }

\* insert_company_info leaving the values of a stored row as they are and
\* renewing only its stamp.
insert_company_info_TouchOnly(table, ticker, company_data, ok) ==
    LET data == [last_updated |-> now] @@ company_data
                @@ [ticker |-> Upper(ticker)]
    IN IF ~ok THEN table
       ELSE IF \E r \in table : r.ticker = data.ticker
            THEN { IF r.ticker = data.ticker
                   THEN [r EXCEPT !.last_updated = now] ELSE r : r \in table }
            ELSE table \cup {data}

\* insert_company_info with a last_updated of company_data replacing the
\* stamp of the call.
insert_company_info_DataWins(table, ticker, company_data, ok) ==
    LET data == company_data @@ [last_updated |-> now]
                @@ [ticker |-> Upper(ticker)]
    IN IF ~ok
       THEN table
       ELSE {r \in table : r.ticker # data.ticker} \cup {data}

\* insert_company_info keeping the stored value of a field for which the
\* new record carries the default ('N/A' or 0).
insert_company_info_KeepStored(table, ticker, company_data, ok) ==
    LET data == [last_updated |-> now] @@ company_data
                @@ [ticker |-> Upper(ticker)]
        old == {r \in table : r.ticker = data.ticker}
        Text(r, k) == IF data[k] = "N/A" THEN r[k] ELSE data[k]
        Number(r, k) == IF data[k] = 0 THEN r[k] ELSE data[k]
    IN IF ~ok
       THEN table
       ELSE (table \ old)
            \cup { IF old = {}
                   THEN data
                   ELSE LET r == CHOOSE r \in old : TRUE IN
                        [data EXCEPT !.company_name = Text(r, "company_name"),
                                     !.sector = Text(r, "sector"),
                                     !.industry = Text(r, "industry"),
                                     !.market_cap = Number(r, "market_cap"),
                                     !.pe_ratio = Number(r, "pe_ratio"),
                                     !.description = Text(r, "description"),
                                     !.website = Text(r, "website")] }

\* SupabaseService.insert_company_info: the table after the upsert.  The row
\* is {'ticker': ticker.upper(), **company_data, 'last_updated': utcnow()}:
\* a later key replaces an earlier one, so last_updated is always the
\* instant of the call.  The upsert is keyed by the row's ticker; a failed
\* request is caught and changes nothing.
insert_company_info(table, ticker, company_data, ok) ==
    LET data == [last_updated |-> now] @@ company_data
                @@ [ticker |-> Upper(ticker)]
    IN IF ~ok
       THEN table
       ELSE {r \in table : r.ticker # data.ticker} \cup {data}

\* A freshness test of the company row that also looks at the news table
CompanyRowIsFresh_WhenNewsStored(row, max_age_hours) ==
    IF row = None \/ news = <<>>
    THEN FALSE
    ELSE LET last_updated == fromisoformat(row.last_updated) IN
         IF last_updated.exc
         THEN FALSE
         ELSE LET age == datetime_sub(utcnow, last_updated.val) IN
              IF age.exc
              THEN FALSE
              ELSE age.val <= max_age_hours * 3600

\* The body of is_company_info_fresh on the row (or None) that
\* get_company_info returned: every exception is caught and gives False.
CompanyRowIsFresh(row, max_age_hours) ==
    IF row = None
    THEN FALSE
    ELSE LET last_updated == fromisoformat(row.last_updated) IN
         IF last_updated.exc
         THEN FALSE
         ELSE LET age == datetime_sub(utcnow, last_updated.val) IN
              IF age.exc
              THEN FALSE
              ELSE age.val <= max_age_hours * 3600

\* SupabaseService.is_company_info_fresh: the possible outcomes of one call
is_company_info_fresh(table, ticker, max_age_hours, ok) ==
    { Ret(CompanyRowIsFresh(c.val, max_age_hours)) :
        c \in get_company_info(table, ticker, ok) }

----------------------------------------------------------------------------
(* Market-data provider and normalizers (services/stock_service.py) *)

\* dict.get(key, default)
Get(d, k, default) == IF k \in DOMAIN d THEN d[k] ELSE default

EmptyInfo == [k \in {} |-> 0]

\* The .info dictionaries of the provider: a full profile with quote fields
\* (prices in thousandths, P/E in hundredths) and an empty one.
FullInfo ==
    [longName            |-> "Meta Platforms Inc",
     sector              |-> "Technology",
     industry            |-> "Internet Content",
     marketCap           |-> 1200,
     trailingPE          |-> 2550,
     longBusinessSummary |-> "Social media company",
     website             |-> "https://meta.com",
     currentPrice        |-> 150250,
     previousClose       |-> 145000,
     dayHigh             |-> 152004,
     dayLow              |-> 149000,
     volume              |-> 50000000]

\* What yf.Ticker(ticker).info does: raises, or gives a dictionary.
ProfileUpstream ==
    { [kind |-> "raise", info |-> EmptyInfo],
      [kind |-> "ok",    info |-> EmptyInfo],
      [kind |-> "ok",    info |-> FullInfo] }

\* parse_company_info_from_yfinance
parse_company_info_from_yfinance(info) ==
    [company_name |-> Get(info, "longName", "N/A"),
     sector       |-> Get(info, "sector", "N/A"),
     industry     |-> Get(info, "industry", "N/A"),
     market_cap   |-> IF Get(info, "marketCap", 0) # 0
                      THEN Get(info, "marketCap", 0) ELSE 0,
     pe_ratio     |-> IF Get(info, "trailingPE", 0) # 0
                      THEN Get(info, "trailingPE", 0) ELSE 0,
     description  |-> Get(info, "longBusinessSummary", "N/A"),
     website      |-> Get(info, "website", "N/A")]

----------------------------------------------------------------------------
(* Company-info orchestrator (services/stock_service.py) *)

\* FreshCompanyRecord with the ticker as it was given.
FreshCompanyRecord_AsGiven(ticker, parsed_data) ==
    [ticker       |-> ticker,
     company_name |-> parsed_data.company_name,
     sector       |-> parsed_data.sector,
     industry     |-> parsed_data.industry,
     market_cap   |-> parsed_data.market_cap,
     pe_ratio     |-> parsed_data.pe_ratio,
     description  |-> parsed_data.description,
     website      |-> parsed_data.website]

\* Step 5 of get_stock_info: the fresh record returned
FreshCompanyRecord(ticker, parsed_data) ==
    [ticker       |-> Upper(ticker),
     company_name |-> parsed_data.company_name,
     sector       |-> parsed_data.sector,
     industry     |-> parsed_data.industry,
     market_cap   |-> parsed_data.market_cap,
     pe_ratio     |-> parsed_data.pe_ratio,
     description  |-> parsed_data.description,
     website      |-> parsed_data.website]

\* StockInfoExcept returning None where the error result belongs.
StockInfoExcept_None(ticker, c) ==
    IF c.exc
    THEN [exc |-> TRUE, val |-> None, path |-> "raised"]
    ELSE IF c.val # None
         THEN [exc |-> FALSE, val |-> c.val, path |-> "fallback"]
         ELSE [exc |-> FALSE, val |-> None, path |-> "error"]

\* StockInfoExcept without the stale fallback: always the error result.
StockInfoExcept_NoFallback(ticker, c) ==
    IF c.exc
    THEN [exc |-> TRUE, val |-> None, path |-> "raised"]
    ELSE [exc |-> FALSE,
          val |-> [error |-> "Failed to fetch info", ticker |-> ticker],
          path |-> IF c.val # None THEN "fallback" ELSE "error"]

\* The except block of get_stock_info, from the outcome c of its store read:
\* the stored row when there is one, else the error result.
StockInfoExcept(ticker, c) ==
    IF c.exc
    THEN [exc |-> TRUE, val |-> None, path |-> "raised"]
    ELSE IF c.val # None
         THEN [exc |-> FALSE, val |-> c.val, path |-> "fallback"]
         ELSE [exc |-> FALSE,
               val |-> [error |-> "Failed to fetch info", ticker |-> ticker],
               path |-> "error"]

StockInfoDone(ticker, up, rd, wr, fetched, r, table) ==
    /\ company_info' = table
    /\ last' = [op      |-> "get_stock_info",
                at      |-> now,
                ticker  |-> ticker,
                up      |-> up,
                before  |-> company_info,
                table  |-> "company_info",
                rd      |-> rd,
                wr      |-> wr,
                path    |-> r.path,
                fetched |-> fetched,
                exc     |-> r.exc,
                result  |-> r.val]
    /\ UNCHANGED <<ai_insights, calls, now, env, news, stocks>>

\* Steps 2 to 5 of get_stock_info and its except block: rd lists the
\* outcomes of the store reads made so far.
StockInfoFetch(ticker, rd) ==
    \E up \in ProfileUpstream :
        IF up.kind = "raise"
        THEN \E rd3 \in BOOLEAN :
             \E c \in get_company_info(company_info, ticker, rd3) :
                 StockInfoDone(ticker, up.kind, Append(rd, rd3), TRUE, TRUE,
                               StockInfoExcept(ticker, c), company_info)
        ELSE \E wr \in BOOLEAN :
             LET parsed_data == parse_company_info_from_yfinance(up.info) IN
             StockInfoDone(ticker, up.kind, rd, wr, TRUE,
                           [exc |-> FALSE,
                            val |-> FreshCompanyRecord(ticker, parsed_data),
                            path |-> "fresh"],
                           insert_company_info(company_info, ticker, parsed_data,
                                               wr))

\* get_stock_info
get_stock_info(ticker) ==
    \E rd1 \in BOOLEAN :
    \E fresh \in is_company_info_fresh(company_info, ticker, CompanyMaxAgeHours, rd1) :
        IF fresh.exc
        THEN \E rd3 \in BOOLEAN :
             \E c \in get_company_info(company_info, ticker, rd3) :
                 StockInfoDone(ticker, "none", <<rd1, rd3>>, TRUE, FALSE,
                               StockInfoExcept(ticker, c), company_info)
        ELSE IF fresh.val
             THEN \E rd2 \in BOOLEAN :
                  \E cached_data \in get_company_info(company_info, ticker, rd2) :
                      IF cached_data.exc
                      THEN \E rd3 \in BOOLEAN :
                           \E c \in get_company_info(company_info, ticker, rd3) :
                               StockInfoDone(ticker, "none", <<rd1, rd2, rd3>>,
                                             TRUE, FALSE,
                                             StockInfoExcept(ticker, c),
                                             company_info)
                      ELSE IF cached_data.val # None
                           THEN StockInfoDone(ticker, "none", <<rd1, rd2>>, TRUE,
                                              FALSE,
                                              [exc |-> FALSE,
                                               val |-> cached_data.val,
                                               path |-> "hit"],
                                              company_info)
                           ELSE StockInfoFetch(ticker, <<rd1, rd2>>)
             ELSE StockInfoFetch(ticker, <<rd1>>)

GetStockInfo ==
    /\ CompanyRun
    /\ \E ticker \in InputTickers : get_stock_info(ticker)

\* The company_data a client gives: the documented fields, alone or with a
\* last_updated of the client's own.
ClientCompanyData ==
    LET parsed == parse_company_info_from_yfinance(FullInfo) IN
    { parsed, [last_updated |-> 100] @@ parsed }

\* A client of the store upserts a row (the example in the docstring of
\* insert_company_info).
InsertCompanyInfo ==
    /\ CompanyRun
    /\ \E ticker \in InputTickers, company_data \in ClientCompanyData,
          ok \in BOOLEAN :
        LET table == insert_company_info(company_info, ticker, company_data, ok)
        IN /\ company_info' = table
           /\ last' = [op     |-> "insert_company_info",
                       at     |-> now,
                       ticker |-> ticker,
                       before |-> company_info,
                       table |-> "company_info",
                       data   |-> company_data,
                       wr     |-> ok,
                       exc    |-> FALSE,
                       result |-> IF ok
                                  THEN CHOOSE r \in table :
                                           r.ticker = Upper(ticker)
                                  ELSE None]
    /\ UNCHANGED <<ai_insights, calls, now, env, news, stocks>>

----------------------------------------------------------------------------
(* Store: table stocks (database/supabase_service.py) *)

\* The methods class SupabaseService defines; db is its instance, and
\* db.<name> for any other name raises AttributeError.
SupabaseServiceMethods ==
    { "insert_stock_data", "get_latest_stock_data", "get_stock_history",
      "insert_news", "get_recent_news", "delete_old_news",
      "insert_ai_insight", "get_latest_ai_insight", "check_data_freshness",
      "health_check", "insert_company_info", "get_company_info",
      "is_company_info_fresh", "get_ai_insights_history" }

\* SupabaseService.insert_stock_data: the table after the call.  The row is
\* stamped timestamp = utcnow(); a failed request is caught and adds nothing.
insert_stock_data_Upsert(table, ticker, price, change_percent, high, low, volume, ok) ==
    IF ~ok
    THEN table
    ELSE Append(SelectSeq(table, LAMBDA r : r.ticker # Upper(ticker)),
                [ticker         |-> Upper(ticker),
                 price          |-> price,
                 change_percent |-> change_percent,
                 high           |-> high,
                 low            |-> low,
                 volume         |-> volume,
                 timestamp      |-> now])

insert_stock_data(table, ticker, price, change_percent, high, low, volume, ok) ==
    IF ~ok
    THEN table
    ELSE Append(table,  [ticker         |-> Upper(ticker),
                         price          |-> price,
                         change_percent |-> change_percent,
                         high           |-> high,
                         low            |-> low,
                         volume         |-> volume,
                         timestamp      |-> now])

\* SupabaseService.get_latest_stock_data: the possible outcomes of one call.
\* The rows of the upper-cased ticker are ordered by timestamp descending and
\* the first is returned; no row, or a failed request (caught), gives None.
get_latest_stock_data(table, ticker, ok) ==
    LET rows == {i \in DOMAIN table : table[i].ticker = Upper(ticker)}
        latest == {i \in rows :
                     \A j \in rows : table[j].timestamp <= table[i].timestamp}
    IN IF ~ok \/ rows = {}
       THEN {Ret(None)}
       ELSE {Ret(table[i]) : i \in latest}

----------------------------------------------------------------------------
(* Quote and history pass-through (services/stock_service.py) *)

\* round(n / d) for d > 0, ties to the even neighbour
RoundDiv_Floor(n, d) == n \div d

RoundDiv(n, d) ==
    LET q == n \div d
        r == n % d
    IN IF 2 * r < d THEN q
       ELSE IF 2 * r > d THEN q + 1
       ELSE IF q % 2 = 0 THEN q ELSE q + 1

\* round(x, 2) of a price in thousandths, in cents
Round2(x) == RoundDiv(x, 10)

\* format_stock_data
format_stock_data(ticker, price, change_percent, high, low, volume) ==
    [ticker         |-> Upper(ticker),
     price          |-> Round2(price),
     change_percent |-> change_percent,
     high           |-> Round2(high),
     low            |-> Round2(low),
     volume         |-> volume,
     timestamp      |-> now]

\* a or b on numbers: a when it is neither None nor 0
Or(a, b) == IF a # 0 THEN a ELSE b

\* get_current_price on what yf.Ticker(ticker).info does; change_percent is
\* in hundredths of a percent.
get_current_price(ticker, up) ==
    IF up.kind = "raise"
    THEN [error |-> "Failed to fetch data", ticker |-> ticker]
    ELSE LET info == up.info
             current_price == Or(Get(info, "currentPrice", 0),
                                 Get(info, "regularMarketPrice", 0))
             previous_close == Get(info, "previousClose", current_price)
             change_percent ==
                 IF previous_close # 0 /\ previous_close > 0
                 THEN RoundDiv((current_price - previous_close) * 10000,
                               previous_close)
                 ELSE 0
             day_high == Or(Get(info, "dayHigh", 0),
                            Get(info, "regularMarketDayHigh", current_price))
             day_low == Or(Get(info, "dayLow", 0),
                           Get(info, "regularMarketDayLow", current_price))
             volume == Or(Get(info, "volume", 0),
                          Get(info, "regularMarketVolume", 0))
         IN format_stock_data(ticker, current_price, change_percent,
                              day_high, day_low, volume)

IsError(d) == "error" \in DOMAIN d

\* What yf.Ticker(ticker).history(period) does: raises, or gives rows
\* (prices in thousandths).
HistoryUpstream ==
    { [kind |-> "raise", rows |-> <<>>],
      [kind |-> "ok",    rows |-> <<>>],
      [kind |-> "ok",
       rows |-> << [date |-> "2025-11-03", Close |-> 150254, Open |-> 149000,
                    High |-> 152004, Low |-> 148999, Volume |-> 50000000] >>] }

\* get_historical_data that answers a failed adapter with a list holding an
\* error dict
get_historical_data_ErrorDict(ticker, up) ==
    IF up.kind = "raise"
    THEN << [error |-> "Failed to fetch data", ticker |-> ticker] >>
    ELSE [i \in DOMAIN up.rows |->
            [date   |-> up.rows[i].date,
             price  |-> Round2(up.rows[i].Close),
             open   |-> Round2(up.rows[i].Open),
             high   |-> Round2(up.rows[i].High),
             low    |-> Round2(up.rows[i].Low),
             volume |-> up.rows[i].Volume]]

\* get_historical_data
get_historical_data(ticker, up) ==
    IF up.kind = "raise"
    THEN <<>>
    ELSE [i \in DOMAIN up.rows |->
            [date   |-> up.rows[i].date,
             price  |-> Round2(up.rows[i].Close),
             open   |-> Round2(up.rows[i].Open),
             high   |-> Round2(up.rows[i].High),
             low    |-> Round2(up.rows[i].Low),
             volume |-> up.rows[i].Volume]]

\* The price fields of yf.Ticker(ticker).info, in thousandths: each key is
\* absent or present; 150.25 against 145.00 is the documented example, and
\* 100.00 against 145.00 falls by 31.034...%.
QuoteInfos ==
    { cur @@ reg @@ prev :
        cur \in {EmptyInfo, [currentPrice |-> 0], [currentPrice |-> 150250],
                 [currentPrice |-> 100000]},
        reg \in {EmptyInfo, [regularMarketPrice |-> 150250]},
        prev \in {EmptyInfo, [previousClose |-> 0],
                  [previousClose |-> -145000], [previousClose |-> 145000]} }

QuoteUpstream ==
    ProfileUpstream \cup { [kind |-> "ok", info |-> i] : i \in QuoteInfos }

\* The pass-through calls read no table: they are made on the store as it
\* starts.
PassThroughRun == QuoteRun /\ stocks = <<>>

GetCurrentPrice ==
    /\ PassThroughRun
    /\ \E ticker \in InputTickers, up \in QuoteUpstream :
        last' = [op      |-> "get_current_price",
                 at      |-> now,
                 ticker  |-> ticker,
                 up      |-> up.kind,
                 info    |-> up.info,
                 fetched |-> TRUE,
                 exc     |-> FALSE,
                 result  |-> get_current_price(ticker, up)]
    /\ UNCHANGED <<ai_insights, calls, now, env, news, company_info, stocks>>

GetHistoricalData ==
    /\ PassThroughRun
    /\ \E ticker \in InputTickers, up \in HistoryUpstream :
        last' = [op      |-> "get_historical_data",
                 at      |-> now,
                 ticker  |-> ticker,
                 up      |-> up.kind,
                 fetched |-> TRUE,
                 exc     |-> FALSE,
                 result  |-> get_historical_data(ticker, up)]
    /\ UNCHANGED <<ai_insights, calls, now, env, news, company_info, stocks>>

\* A client of the store (tests/test_supabase.py) inserts a quote.
InsertStockData ==
    /\ QuoteRun
    /\ \E ticker \in InputTickers, ok \in BOOLEAN :
        LET table == insert_stock_data(stocks, ticker, 15025, 250, 15200,
                                       14900, 50000000, ok)
        IN /\ Len(table) <= MaxStocks
           /\ stocks' = table
           /\ last' = [op     |-> "insert_stock_data",
                       at     |-> now,
                       ticker |-> ticker,
                       before |-> stocks,
                       table |-> "stocks",
                       wr     |-> ok,
                       exc    |-> FALSE,
                       result |-> IF ok THEN table[Len(table)]
                                  ELSE [error |-> "store"]]
    /\ UNCHANGED <<ai_insights, calls, now, env, news, company_info>>

\* A client of the store (tests/test_supabase.py) reads the latest quote.
GetLatestStockData ==
    /\ QuoteRun
    /\ \E ticker \in InputTickers, ok \in BOOLEAN :
       \E c \in get_latest_stock_data(stocks, ticker, ok) :
        last' = [op     |-> "get_latest_stock_data",
                 at     |-> now,
                 ticker |-> ticker,
                 before |-> stocks,
                 table  |-> "stocks",
                 rd     |-> <<ok>>,
                 exc    |-> c.exc,
                 result |-> c.val]
    /\ UNCHANGED <<ai_insights, calls, now, env, news, company_info, stocks>>

----------------------------------------------------------------------------
(* Store: table ai_insights (database/supabase_service.py) *)

\* SupabaseService.insert_ai_insight, the definition the class ends up with
\* (the second of the two): one new row, with no stamp of its own.
insert_ai_insight(table, ticker, content, sentiment, risk_level, insight_type, ok) ==
    IF ~ok
    THEN table
    ELSE Append(table, [ticker       |-> Upper(ticker),
                        content      |-> content,
                        sentiment    |-> sentiment,
                        risk_level   |-> risk_level,
                        insight_type |-> insight_type])

\* The parameters of insert_ai_insight that have no default, and the value of
\* an argument the call gives or leaves to its default.
insert_ai_insight_Required == {"ticker", "content"}
Arg(kwargs, name, default) == IF name \in DOMAIN kwargs THEN kwargs[name] ELSE default

\* The calls made on db.insert_ai_insight: with a ticker, and the one of
\* tests/test_supabase.py, db.insert_ai_insight(content=c, insight_type='daily').
ByTypeCall == [content |-> "c2", insight_type |-> "daily"]
InsightCalls == {[ticker |-> t, content |-> "c1"] : t \in InputTickers} \cup {ByTypeCall}

\* A call that leaves out a parameter without default raises TypeError before
\* the body runs; otherwise the body runs with the defaults filled in.
InsertAiInsight ==
    /\ InsightRun
    /\ \E kwargs \in InsightCalls, ok \in BOOLEAN :
        LET bound == insert_ai_insight_Required \subseteq DOMAIN kwargs
            table == IF bound
                     THEN insert_ai_insight(ai_insights, kwargs.ticker, kwargs.content,
                                            Arg(kwargs, "sentiment", None),
                                            Arg(kwargs, "risk_level", None),
                                            Arg(kwargs, "insight_type", "daily"), ok)
                     ELSE ai_insights
        IN /\ Len(table) <= MaxInsights
           /\ ai_insights' = table
           /\ last' = [op     |-> "insert_ai_insight",
                       at     |-> now,
                       kwargs |-> kwargs,
                       before |-> ai_insights,
                       table  |-> "ai_insights",
                       wr     |-> ok,
                       exc    |-> ~bound,
                       result |-> IF bound /\ ok THEN table[Len(table)] ELSE None]
    /\ UNCHANGED <<calls, now, env, news, company_info, stocks>>

\* SupabaseService.get_latest_ai_insight, the definition the class ends up
\* with (the second of the two): its one parameter is `ticker`.  The rows are
\* ordered by generated_at, which the store assigns as a row is inserted, so
\* the latest row is the last one appended; a failed read is swallowed.
\* `args` are the positional arguments: none leaves ticker at its default None.
get_latest_ai_insight(table, args, ok) ==
    LET rows == IF args # <<>>
                THEN SelectSeq(table, LAMBDA r : r.ticker = Upper(args[1]))
                ELSE table
    IN IF ok /\ rows # <<>> THEN rows[Len(rows)] ELSE None

\* The calls made on db.get_latest_ai_insight: without argument, with a ticker,
\* and the one of tests/test_supabase.py, db.get_latest_ai_insight('daily').
LatestInsightArgs == {<<>>, <<"daily">>} \cup {<<t>> : t \in InputTickers}

GetLatestAiInsight ==
    /\ InsightRun
    /\ \E args \in LatestInsightArgs, ok \in BOOLEAN :
        last' = [op     |-> "get_latest_ai_insight",
                 at     |-> now,
                 args   |-> args,
                 before |-> ai_insights,
                 table  |-> "ai_insights",
                 rd     |-> ok,
                 exc    |-> FALSE,
                 result |-> get_latest_ai_insight(ai_insights, args, ok)]
    /\ UNCHANGED <<ai_insights, calls, now, env, news, company_info, stocks>>

----------------------------------------------------------------------------
(* Quote orchestrator (services/stock_service.py) *)

\* The try block of get_stock_with_cache.  Its first statement looks up
\* db.get_stock_data; the rest is written for a method of that name that
\* reads the latest quote (c0 is the outcome of that read).
StockCacheTry(ticker, max_age_seconds, c0, up) ==
    IF "get_stock_data" \notin SupabaseServiceMethods
    THEN [exc |-> TRUE, val |-> None, path |-> "except", fetched |-> FALSE]
    ELSE LET cached_data == c0.val
             cached_time ==
                 IF cached_data = None THEN Raise
                 ELSE fromisoformat(cached_data.timestamp)
             age == IF cached_time.exc THEN Raise
                    ELSE datetime_sub(utcnow, cached_time.val)
             data == get_current_price(ticker, up)
         IN IF cached_data # None /\ age.exc
            THEN [exc |-> TRUE, val |-> None, path |-> "except",
                  fetched |-> FALSE]
            ELSE IF cached_data # None /\ age.val < max_age_seconds
                 THEN [exc |-> FALSE, val |-> cached_data, path |-> "hit",
                       fetched |-> FALSE]
                 ELSE IF ~IsError(data)
                      \* db.insert_stock_data(ticker, data): four required
                      \* arguments are missing, TypeError
                      THEN [exc |-> TRUE, val |-> None, path |-> "except",
                            fetched |-> TRUE]
                      ELSE [exc |-> FALSE, val |-> data, path |-> "error",
                            fetched |-> TRUE]

\* get_stock_with_cache: the except block returns None.
get_stock_with_cache(ticker, max_age_seconds) ==
    \E rd \in BOOLEAN, up \in ProfileUpstream :
    \E c0 \in get_latest_stock_data(stocks, ticker, rd) :
        LET t == StockCacheTry(ticker, max_age_seconds, c0, up)
            called == "get_stock_data" \in SupabaseServiceMethods
        IN /\ last' = [op              |-> "get_stock_with_cache",
                       at              |-> now,
                       ticker          |-> ticker,
                       max_age_seconds |-> max_age_seconds,
                       up              |-> IF t.fetched THEN up.kind ELSE "none",
                       before          |-> stocks,
                       table          |-> "stocks",
                       rd              |-> IF called THEN rd ELSE TRUE,
                       path            |-> t.path,
                       fetched         |-> t.fetched,
                       exc             |-> FALSE,
                       result          |-> IF t.exc THEN None ELSE t.val]
           /\ UNCHANGED <<ai_insights, calls, now, env, news, company_info, stocks>>

\* The values of the max_age_seconds argument: the default, and the value
\* that get_news_with_cache takes as "any cached data"
MaxAgeSeconds == {DefaultMaxAgeSeconds, UseAnyCache}

GetStockWithCache ==
    /\ QuoteRun
    /\ \E ticker \in InputTickers, max_age_seconds \in MaxAgeSeconds :
        get_stock_with_cache(ticker, max_age_seconds)

----------------------------------------------------------------------------
(* The clock *)

Tick ==
    /\ Continuing
    /\ \E t \in Instants : t > now /\ now' = t
    /\ UNCHANGED <<ai_insights, calls, env, news, company_info, stocks, last>>

----------------------------------------------------------------------------
(* Initial state: a deployment, and a store that holds nothing or one news  *)
(* row written by another client, whose fetched_at cannot be parsed.        *)

InitNews ==
    { <<>>,
      << [title |-> "t0", summary |-> "s0", url |-> "u0",
          published_at |-> -150, fetched_at |-> BadStamp] >> }

Init ==
    /\ now = 0
    /\ env \in Envs
    /\ news \in InitNews
    /\ company_info = {}
    /\ stocks = <<>>
    /\ ai_insights = <<>>
    /\ calls = [p \in Callers |-> Idle]
    /\ last = [op |-> "init"]

Next ==
    \/ GetNews
    \/ GetStockInfo
    \/ InsertCompanyInfo
    \/ GetStockWithCache
    \/ GetCurrentPrice
    \/ GetHistoricalData
    \/ InsertStockData
    \/ GetLatestStockData
    \/ InsertAiInsight
    \/ GetLatestAiInsight
    \/ DeleteOldNews
    \/ FetchFinancialNews
    \/ Tick

Spec == Init /\ [][Next]_vars

----------------------------------------------------------------------------
(* The same program with calls made when a stored record's age equals a    *)
(* TTL exactly: 60 minutes and 24 hours after the first instant.           *)

BoundaryInstants ==
    {0, DefaultMaxAgeMinutes * 60, CompanyMaxAgeHours * 3600}

TickBoundary ==
    /\ Continuing
    /\ \E t \in BoundaryInstants : t > now /\ now' = t
    /\ UNCHANGED <<ai_insights, calls, env, news, company_info, stocks, last>>

NextBoundary ==
    \/ GetNews
    \/ GetStockInfo
    \/ InsertCompanyInfo
    \/ GetStockWithCache
    \/ InsertStockData
    \/ TickBoundary

SpecBoundary == Init /\ [][NextBoundary]_vars

----------------------------------------------------------------------------
(* Two request handlers at once (app.py runs threaded): each orchestrator   *)
(* call is a sequence of steps, one per store request or provider request, *)
(* and the steps of the two callers interleave.  calls[p] holds the        *)
(* position of caller p and the locals of its call; `seen` is the table as *)
(* its first read found it.                                                *)

MaxNewsInFlight == 3

Set(p, rec) == calls' = [calls EXCEPT ![p] = rec]

OthersIn(p, op) ==
    \A q \in Callers \ {p} : IF calls[q] = Idle THEN TRUE ELSE calls[q].op = op

At(p, op, pc) == calls[p] # Idle /\ calls[p].op = op /\ calls[p].pc = pc

\* Step 1 of get_news_with_cache and the freshness test of Step 2
NewsStart(p) ==
    /\ calls[p] = Idle
    /\ OthersIn(p, "get_news_with_cache")
    /\ company_info = {} /\ stocks = <<>> /\ ai_insights = <<>>
    /\ \E limit \in Limits, max_age_minutes \in MaxAgeMinutes, rd \in BOOLEAN :
       \E c0 \in get_recent_news(news, limit, rd) :
          LET probe == NewsTry(max_age_minutes, c0, NotAsked, <<>>)
              c == [op |-> "get_news_with_cache", limit |-> limit,
                    max_age_minutes |-> max_age_minutes, seen |-> news,
                    cached |-> c0.val]
          IN Set(p, IF probe.exc
                    THEN [pc |-> "except"] @@ c
                    ELSE IF ~probe.fetched
                         THEN [pc |-> "done", path |-> "hit", exc |-> FALSE,
                               result |-> probe.val] @@ c
                         ELSE [pc |-> "fetch"] @@ c)
    /\ UNCHANGED <<now, env, news, company_info, stocks, ai_insights, last>>

\* Step 3: the provider is asked; nothing fetched ends the call with the
\* cached list.
NewsFetchStep(p) ==
    /\ At(p, "get_news_with_cache", "fetch")
    /\ \E up \in NewsUpstream(calls[p].limit) :
          LET fresh_news == fetch_financial_news(up) IN
          Set(p, IF fresh_news = <<>>
                 THEN [pc |-> "done", exc |-> FALSE, result |-> calls[p].cached,
                       path |-> IF calls[p].cached # <<>> THEN "fallback"
                                ELSE "empty"] @@ calls[p]
                 ELSE [pc |-> "store", fresh_news |-> fresh_news, i |-> 1]
                      @@ calls[p])
    /\ UNCHANGED <<now, env, news, company_info, stocks, ai_insights, last>>

\* Step 4: one insert_news request; after the last one the call returns the
\* fresh list.
NewsStore(p) ==
    /\ At(p, "get_news_with_cache", "store")
    /\ \E ok \in BOOLEAN :
          LET c == calls[p]
              table == insert_news(news, c.fresh_news[c.i], ok)
          IN /\ Len(table) <= MaxNewsInFlight
             /\ news' = table
             /\ Set(p, IF c.i < Len(c.fresh_news)
                       THEN [c EXCEPT !.i = c.i + 1]
                       ELSE [pc |-> "done", path |-> "fresh", exc |-> FALSE,
                             result |-> c.fresh_news] @@ c)
    /\ UNCHANGED <<now, env, company_info, stocks, ai_insights, last>>

\* The except block: the first read decides, the second is returned.
NewsExcept1(p) ==
    /\ At(p, "get_news_with_cache", "except")
    /\ \E rd1 \in BOOLEAN :
       \E c1 \in get_recent_news(news, calls[p].limit, rd1) :
          Set(p, IF c1.val # <<>>
                 THEN [pc |-> "except2"] @@ calls[p]
                 ELSE [pc |-> "done", path |-> "except", exc |-> c1.exc,
                       result |-> <<>>] @@ calls[p])
    /\ UNCHANGED <<now, env, news, company_info, stocks, ai_insights, last>>

NewsExcept2(p) ==
    /\ At(p, "get_news_with_cache", "except2")
    /\ \E rd2 \in BOOLEAN :
       \E c2 \in get_recent_news(news, calls[p].limit, rd2) :
          Set(p, [pc |-> "done", path |-> "except", exc |-> c2.exc,
                  result |-> c2.val] @@ calls[p])
    /\ UNCHANGED <<now, env, news, company_info, stocks, ai_insights, last>>

\* Step 1 of get_stock_info: is_company_info_fresh
InfoStart(p) ==
    /\ calls[p] = Idle
    /\ OthersIn(p, "get_stock_info")
    /\ ~Written(news) /\ stocks = <<>> /\ ai_insights = <<>>
    /\ \E ticker \in InputTickers, rd1 \in BOOLEAN :
       \E fresh \in is_company_info_fresh(company_info, ticker,
                                          CompanyMaxAgeHours, rd1) :
          Set(p, [pc |-> IF fresh.exc THEN "except"
                         ELSE IF fresh.val THEN "read" ELSE "fetch",
                  op |-> "get_stock_info", ticker |-> ticker,
                  seen |-> company_info])
    /\ UNCHANGED <<now, env, news, company_info, stocks, ai_insights, last>>

\* The read of the fresh row
InfoRead(p) ==
    /\ At(p, "get_stock_info", "read")
    /\ \E rd2 \in BOOLEAN :
       \E cached_data \in get_company_info(company_info, calls[p].ticker, rd2) :
          Set(p, IF cached_data.exc
                 THEN [pc |-> "except"] @@ calls[p]
                 ELSE IF cached_data.val # None
                      THEN [pc |-> "done", path |-> "hit", exc |-> FALSE,
                            wr |-> FALSE, result |-> cached_data.val]
                           @@ calls[p]
                      ELSE [pc |-> "fetch"] @@ calls[p])
    /\ UNCHANGED <<now, env, news, company_info, stocks, ai_insights, last>>

\* Steps 2 and 3: yf.Ticker(ticker).info and its parsing
InfoFetch(p) ==
    /\ At(p, "get_stock_info", "fetch")
    /\ \E up \in ProfileUpstream :
          Set(p, IF up.kind = "raise"
                 THEN [pc |-> "except"] @@ calls[p]
                 ELSE [pc |-> "write",
                       parsed_data |-> parse_company_info_from_yfinance(up.info)]
                      @@ calls[p])
    /\ UNCHANGED <<now, env, news, company_info, stocks, ai_insights, last>>

\* Steps 4 and 5: the upsert request, and the return of the fresh record;
\* `data` is the row sent.
InfoWrite(p) ==
    /\ At(p, "get_stock_info", "write")
    /\ \E wr \in BOOLEAN :
          LET c == calls[p] IN
          /\ company_info' = insert_company_info(company_info, c.ticker,
                                                 c.parsed_data, wr)
          /\ Set(p, [pc |-> "done", path |-> "fresh", exc |-> FALSE,
                     wr |-> wr,
                     data |-> [last_updated |-> now] @@ c.parsed_data
                                  @@ [ticker |-> Upper(c.ticker)],
                     result |-> FreshCompanyRecord(c.ticker, c.parsed_data)]
                    @@ c)
    /\ UNCHANGED <<now, env, news, stocks, ai_insights, last>>

\* The except block of get_stock_info
InfoExcept(p) ==
    /\ At(p, "get_stock_info", "except")
    /\ \E rd3 \in BOOLEAN :
       \E c \in get_company_info(company_info, calls[p].ticker, rd3) :
          LET r == StockInfoExcept(calls[p].ticker, c) IN
          Set(p, [pc |-> "done", path |-> r.path, exc |-> r.exc,
                  wr |-> FALSE, result |-> r.val] @@ calls[p])
    /\ UNCHANGED <<now, env, news, company_info, stocks, ai_insights, last>>

\* The state in which the two requests arrive: a deployment whose stamps
\* both orchestrators can read, and a store that is empty, or holds what an
\* earlier call stored at the first instant (one article, or the row of
\* META), or holds the other client's news row.
InitConcurrent ==
    /\ now = 0
    /\ env = [tsForm |-> "naive", localOffset |-> 0]
    /\ \/ /\ news \in InitNews
          /\ company_info = {}
       \/ /\ news = insert_news(<<>>, fetch_financial_news(
                         [kind |-> "ok",
                          articles |-> <<CHOOSE a \in RawArticles :
                                            a.title = "t1">>])[1], TRUE)
          /\ company_info = {}
       \/ /\ news = <<>>
          /\ company_info =
                insert_company_info({}, "META",
                    parse_company_info_from_yfinance(FullInfo), TRUE)
    /\ stocks = <<>>
    /\ ai_insights = <<>>
    /\ calls = [p \in Callers |-> Idle]
    /\ last = [op |-> "init"]

NextConcurrent ==
    \/ \E p \in Callers : NewsStart(p)
    \/ \E p \in Callers : NewsFetchStep(p)
    \/ \E p \in Callers : NewsStore(p)
    \/ \E p \in Callers : NewsExcept1(p)
    \/ \E p \in Callers : NewsExcept2(p)
    \/ \E p \in Callers : InfoStart(p)
    \/ \E p \in Callers : InfoRead(p)
    \/ \E p \in Callers : InfoFetch(p)
    \/ \E p \in Callers : InfoWrite(p)
    \/ \E p \in Callers : InfoExcept(p)
    \/ Tick

SpecConcurrent == InitConcurrent /\ [][NextConcurrent]_vars

----------------------------------------------------------------------------
(* The HTTP client (services/api_utils.py): APIClient.get, one pass of its  *)
(* retry loop per step.  The clock advances by the seconds slept.           *)

\* retries: int = 3
DefaultRetries == 3

\* The values of the `retries` argument
Retries == 0..DefaultRetries

\* What one request does: a JSON body, HTTP 429, another HTTP error status,
\* a connection error, a timeout, or another RequestException.
Responses == {"ok", "429", "http", "connection", "timeout", "other"}

wait_time_Fixed(attempt) == 1

\* wait_time = 2 ** attempt
wait_time(attempt) == 2 ^ attempt

\* A pass that leaves the loop only when it is the last one
Returns_LastOnly(response, final) == final

\* Whether a pass of the loop returns: on a JSON body, on a RequestException
\* of no more specific kind, and on the last pass for an HTTP error status
\* other than 429, a connection error and a timeout.
Returns(response, final) ==
    \/ response \in {"ok", "other"}
    \/ response \in {"http", "connection", "timeout"} /\ final

ApiStart(p) ==
    /\ calls[p] = Idle
    /\ OthersIn(p, "none")
    /\ \E retries \in Retries :
          Set(p, [pc |-> "attempt", op |-> "get", retries |-> retries,
                  attempt |-> 0, log |-> <<>>])
    /\ UNCHANGED <<now, env, news, company_info, stocks, ai_insights, last>>

\* One pass of `for attempt in range(retries)`: the request, and what its
\* except clauses do.  `slept` is the number of seconds the pass sleeps.
ApiAttempt(p) ==
    /\ At(p, "get", "attempt")
    /\ calls[p].attempt < calls[p].retries
    /\ \E response \in Responses :
          LET c == calls[p]
              final == c.attempt = c.retries - 1
              log == Append(c.log, [status |-> response, at |-> now])
              slept == IF response = "429" THEN wait_time(c.attempt)
                       ELSE IF response \in {"connection", "timeout"} /\ ~final
                            THEN 1
                            ELSE 0
              returns == Returns(response, final)
              result ==
                  CASE response = "ok"         -> [json |-> "body"]
                    [] response = "http"       -> [error |-> "HTTP"]
                    [] response = "connection" -> [error |-> "Connection error"]
                    [] response = "timeout"    -> [error |-> "Request timeout"]
                    [] OTHER                   -> [error |-> "Request failed"]
          IN /\ now' = now + slept
             /\ Set(p, IF returns
                       THEN [pc |-> "done", log |-> log, result |-> result,
                             returned |-> now + slept] @@ c
                       ELSE [attempt |-> c.attempt + 1, log |-> log] @@ c)
    /\ UNCHANGED <<env, news, company_info, stocks, ai_insights, last>>

\* The loop has run out: return {'error': 'Max retries exceeded'}
ApiExhausted(p) ==
    /\ At(p, "get", "attempt")
    /\ calls[p].attempt = calls[p].retries
    /\ Set(p, [pc |-> "done", result |-> [error |-> "Max retries exceeded"],
               returned |-> now] @@ calls[p])
    /\ UNCHANGED <<now, env, news, company_info, stocks, ai_insights, last>>

NextApi ==
    \/ \E p \in Callers : ApiStart(p)
    \/ \E p \in Callers : ApiAttempt(p)
    \/ \E p \in Callers : ApiExhausted(p)

SpecApi == Init /\ [][NextApi]_vars

\* A call in progress keeps running: every request ends within the client's
\* timeout and every sleep is finite.
SpecApiLive ==
    SpecApi /\ \A p \in Callers : WF_vars(ApiAttempt(p) \/ ApiExhausted(p))

----------------------------------------------------------------------------
(* Request handlers (app.py): one request at a time, each lookup in the    *)
(* order of the handler's body, and the clock read as the request arrives. *)

\* The arguments the dashboard gives to get_news_with_cache
DashboardNewsLimit == 10

\* The handler's frame: the values its lookups have returned so far
Handler == calls[1]

\* The lookups of a handler in the order it makes them, then the response
Lookups(op) ==
    IF op = "dashboard"
    THEN <<"stock", "stock_info", "historical_data", "news", "respond">>
    ELSE <<"stock_info", "stock", "news", "respond">>

After(op, pc) ==
    LET order == Lookups(op)
        i == CHOOSE i \in DOMAIN order : order[i] = pc
    IN order[i + 1]

\* A request arrives: the dashboard is for 'META', get_analysis_data takes
\* ticker and news_limit from the query.
HandlerStart ==
    /\ Handler = Idle
    /\ \E op \in {"dashboard", "get_analysis_data"}, ticker \in InputTickers,
          news_limit \in Limits \cup {DashboardNewsLimit}, t \in Instants :
        /\ t >= now
        /\ IF op = "dashboard"
           THEN ticker = "META" /\ news_limit = DashboardNewsLimit
           ELSE news_limit \in Limits
        /\ now' = t
        /\ Set(1, [pc |-> Lookups(op)[1], op |-> op, ticker |-> ticker,
                   news_limit |-> news_limit, stock |-> None, stock_info |-> None,
                   historical_data |-> <<>>, news |-> <<>>, raised |-> FALSE,
                   stock_up |-> "none", history_up |-> "none"])
        /\ last' = [op |-> "request"]
    /\ UNCHANGED <<env, news, company_info, stocks, ai_insights>>

\* The value a lookup returned is bound to the handler's name for it; an
\* exception that leaves the lookup leaves the handler.
Returned(name) ==
    /\ Set(1, IF last.exc
              THEN [Handler EXCEPT !.raised = TRUE, !.pc = "respond"]
              ELSE [Handler EXCEPT ![name] = last.result,
                                   !.pc = After(Handler.op, name)])
    /\ last' = [op |-> "return"]
    /\ UNCHANGED <<now, env, news, company_info, stocks, ai_insights>>

\* What the quote adapter does for a request: it raises, or gives a profile
\* without a price, or one with the prices of the documented example.
HandlerQuoteUpstream ==
    ProfileUpstream \cup
    { [kind |-> "ok", info |-> [currentPrice |-> 150250, previousClose |-> 145000]] }

\* stock_data = get_current_price(ticker)
HandlerCurrentPrice ==
    /\ At(1, Handler.op, "stock")
    /\ \E up \in HandlerQuoteUpstream :
        Set(1, [Handler EXCEPT !.stock = get_current_price(Handler.ticker, up),
                               !.stock_up = up.kind,
                               !.pc = After(Handler.op, "stock")])
    /\ UNCHANGED <<now, env, news, company_info, stocks, ai_insights, last>>

\* stock_info = get_stock_info(ticker)
HandlerStockInfo ==
    /\ At(1, Handler.op, "stock_info")
    /\ last.op # "get_stock_info"
    /\ get_stock_info(Handler.ticker)

HandlerStockInfoReturn ==
    /\ At(1, Handler.op, "stock_info")
    /\ last.op = "get_stock_info"
    /\ Returned("stock_info")

\* historical_data = get_historical_data(ticker, period='1mo')
HandlerHistoricalData ==
    /\ At(1, "dashboard", "historical_data")
    /\ \E up \in HistoryUpstream :
        Set(1, [Handler EXCEPT
                  !.historical_data = get_historical_data(Handler.ticker, up),
                  !.history_up = up.kind,
                  !.pc = After(Handler.op, "historical_data")])
    /\ UNCHANGED <<now, env, news, company_info, stocks, ai_insights, last>>

\* news_articles = get_news_with_cache(category='business', limit=...,
\* max_age_minutes=...): 60 for the dashboard, 0 for get_analysis_data
HandlerNews ==
    /\ At(1, Handler.op, "news")
    /\ last.op # "get_news_with_cache"
    /\ get_news_with_cache(Handler.news_limit,
                           IF Handler.op = "dashboard" THEN DefaultMaxAgeMinutes
                           ELSE ForceFresh)

HandlerNewsReturn ==
    /\ At(1, Handler.op, "news")
    /\ last.op = "get_news_with_cache"
    /\ Returned("news")

\* The context of the dashboard page
dashboard_context(ticker, stock_data, stock_info, historical_data, news_articles) ==
    Ret([current_time    |-> datetime_now(FALSE).t,
         page_title      |-> "Finance Dashboard",
         stock           |-> stock_data,
         stock_info      |-> stock_info,
         historical_data |-> historical_data,
         ticker          |-> ticker,
         news            |-> news_articles])

\* news_context of get_analysis_data: one numbered entry per article, or the
\* fixed sentence when there is none
news_context(news_articles) ==
    IF news_articles # <<>>
    THEN [i \in DOMAIN news_articles |->
            <<i, Get(news_articles[i], "ai_context",
                     Get(news_articles[i], "title", "No title"))>>]
    ELSE <<"No recent news available">>

\* The response of get_analysis_data with every field read by subscript:
\* KeyError on a lookup result that lacks the key
analysis_response_Subscript(ticker, stock_info, stock_price, news_articles) ==
    IF IsError(stock_info) \/ IsError(stock_price)
    THEN Raise
    ELSE Ret([ticker    |-> ticker,
              timestamp |-> datetime_now(FALSE).t,
              stock     |-> [company_name   |-> stock_info.company_name,
                             sector         |-> stock_info.sector,
                             industry       |-> stock_info.industry,
                             current_price  |-> stock_price.price,
                             change_percent |-> stock_price.change_percent,
                             market_cap     |-> stock_info.market_cap,
                             pe_ratio       |-> stock_info.pe_ratio,
                             description    |-> stock_info.description],
              news      |-> news_articles,
              prompt_template |->
                  [ticker         |-> ticker,
                   company_name   |-> stock_info.company_name,
                   sector         |-> stock_info.sector,
                   price          |-> stock_price.price,
                   change_percent |-> stock_price.change_percent,
                   market_cap     |-> stock_info.market_cap,
                   pe_ratio       |-> stock_info.pe_ratio,
                   news_context   |-> news_context(news_articles)]])

\* The response of get_analysis_data: every field of a lookup result is read
\* with .get and a default
analysis_response(ticker, stock_info, stock_price, news_articles) ==
    Ret([ticker    |-> ticker,
         timestamp |-> datetime_now(FALSE).t,
         stock     |-> [company_name   |-> Get(stock_info, "company_name", ""),
                        sector         |-> Get(stock_info, "sector", ""),
                        industry       |-> Get(stock_info, "industry", ""),
                        current_price  |-> Get(stock_price, "price", 0),
                        change_percent |-> Get(stock_price, "change_percent", 0),
                        market_cap     |-> Get(stock_info, "market_cap", 0),
                        pe_ratio       |-> Get(stock_info, "pe_ratio", 0),
                        description    |-> Get(stock_info, "description", "")],
         news      |-> news_articles,
         prompt_template |->
             [ticker         |-> ticker,
              company_name   |-> Get(stock_info, "company_name", ticker),
              sector         |-> Get(stock_info, "sector", "N/A"),
              price          |-> Get(stock_price, "price", 0),
              change_percent |-> Get(stock_price, "change_percent", 0),
              market_cap     |-> Get(stock_info, "market_cap", 0),
              pe_ratio       |-> Get(stock_info, "pe_ratio", "N/A"),
              news_context   |-> news_context(news_articles)]])

\* The handler builds its response from what the lookups returned and the
\* request ends; an exception that left a lookup leaves the handler.
HandlerRespond ==
    /\ At(1, Handler.op, "respond")
    /\ LET r == IF Handler.raised
                THEN Raise
                ELSE IF Handler.op = "dashboard"
                THEN dashboard_context(Handler.ticker, Handler.stock,
                                       Handler.stock_info,
                                       Handler.historical_data, Handler.news)
                ELSE analysis_response(Handler.ticker, Handler.stock_info,
                                       Handler.stock, Handler.news)
       IN last' = [op              |-> Handler.op,
                   at              |-> now,
                   ticker          |-> Handler.ticker,
                   stock           |-> Handler.stock,
                   stock_info      |-> Handler.stock_info,
                   historical_data |-> Handler.historical_data,
                   news            |-> Handler.news,
                   stock_up        |-> Handler.stock_up,
                   history_up      |-> Handler.history_up,
                   exc             |-> r.exc,
                   result          |-> r.val]
    /\ Set(1, [pc |-> "done", op |-> Handler.op])
    /\ UNCHANGED <<now, env, news, company_info, stocks, ai_insights>>

\* A store that holds nothing, or rows written by earlier requests and clients
InitHandlers ==
    /\ now = 0
    /\ env \in Envs
    /\ news \in InitNews \cup
          { insert_news(<<>>, fetch_financial_news(
                [kind |-> "ok",
                 articles |-> <<CHOOSE a \in RawArticles : a.title = "t1">>])[1],
                TRUE) }
    /\ company_info \in
          { {}, insert_company_info({}, "META",
                    parse_company_info_from_yfinance(FullInfo), TRUE) }
    /\ stocks \in { <<>>, insert_stock_data(<<>>, "META", 15025, 250, 15200, 14900,
                                            50000000, TRUE) }
    /\ ai_insights = <<>>
    /\ calls = [p \in Callers |-> Idle]
    /\ last = [op |-> "init"]

NextHandlers ==
    \/ HandlerStart
    \/ HandlerCurrentPrice
    \/ HandlerStockInfo
    \/ HandlerStockInfoReturn
    \/ HandlerHistoricalData
    \/ HandlerNews
    \/ HandlerNewsReturn
    \/ HandlerRespond

SpecHandlers == InitHandlers /\ [][NextHandlers]_vars

----------------------------------------------------------------------------
(* Properties *)

UpstreamFailed == last.fetched /\ last.up \in {"raise", "error"}

ReadsOk == \A i \in DOMAIN last.rd : last.rd[i]

\* The lists a successful store read of the news table returns
StoredBatches(table, limit) ==
    {c.val : c \in get_recent_news(table, limit, TRUE)}

\* The rows of company_info stored for a ticker
StoredRows(table, ticker) == {r \in table : r.ticker = Upper(ticker)}

\* The latest quotes stored for a ticker
StoredQuotes(table, ticker) ==
    {c.val : c \in get_latest_stock_data(table, ticker, TRUE)} \ {None}

\* C1 (case): get_news_with_cache with max_age_minutes = 60 read a non-empty
\* batch whose first article was fetched more than 60 minutes ago, and the
\* upstream fetch failed.
C1_Case ==
    /\ last.op = "get_news_with_cache"
    /\ last.max_age_minutes = DefaultMaxAgeMinutes
    /\ last.rd
    /\ last.cached # <<>>
    /\ last.cached[1].fetched_at # BadStamp
    /\ last.at - last.cached[1].fetched_at > DefaultMaxAgeMinutes * 60
    /\ UpstreamFailed

\* C1: news stale fallback.  In that case the call returns the stored batch
\* it read, which is not the empty list, raises nothing, and the news table
\* is what it was before the call.
C1_NewsStaleFallback ==
    C1_Case =>
        /\ ~last.exc
        /\ last.result # <<>>
        /\ last.result \in StoredBatches(last.before, last.limit)
        /\ news = last.before

C1_Witness ==
    /\ C1_Case
    /\ last.result = last.cached
    /\ last.at - last.cached[1].fetched_at = 90000

\* C2 (case): get_stock_info(t) with a row stored for t that is older than
\* 24 hours, every store read succeeding, and the profile fetch raising.
C2_Case ==
    /\ last.op = "get_stock_info"
    /\ ReadsOk
    /\ \E r \in StoredRows(last.before, last.ticker) :
           last.at - r.last_updated > CompanyMaxAgeHours * 3600
    /\ last.fetched
    /\ last.up = "raise"

\* C2: company-info stale fallback.  In that case the call returns the row
\* stored for t, not an error result, and company_info is unchanged.
C2_CompanyStaleFallback ==
    C2_Case =>
        /\ ~last.exc
        /\ last.result \in StoredRows(last.before, last.ticker)
        /\ ~IsError(last.result)
        /\ company_info = last.before

C2_Witness ==
    /\ C2_Case
    /\ last.path = "fallback"
    /\ last.ticker = "meta"
    /\ last.result.ticker = "META"

\* C3 (case): get_stock_with_cache for a ticker whose latest stored Quote
\* is younger than max_age_seconds.
C3_Case ==
    /\ last.op = "get_stock_with_cache"
    /\ \E q \in StoredQuotes(last.before, last.ticker) :
           last.at - q.timestamp < last.max_age_seconds

\* C3: quote cache hit.  In that case the call returns the stored Quote,
\* does not call the market-data adapter and writes nothing to the store.
C3_QuoteCacheHit ==
    C3_Case =>
        /\ last.result \in StoredQuotes(last.before, last.ticker)
        /\ ~last.fetched
        /\ stocks = last.before

\* C4 (case): get_stock_with_cache for a ticker whose latest stored Quote
\* is older than max_age_seconds.
C4_Case ==
    /\ last.op = "get_stock_with_cache"
    /\ StoredQuotes(last.before, last.ticker) # {}
    /\ \A q \in StoredQuotes(last.before, last.ticker) :
           last.at - q.timestamp > last.max_age_seconds

\* C4: quote stale refetch.  In that case the call calls the adapter, and
\* when the adapter succeeds it appends exactly one Quote row for the ticker
\* and returns the newly normalized record, not the stored one and not None.
C4_QuoteStaleRefetch ==
    C4_Case =>
        /\ last.fetched
        /\ last.up = "ok" =>
             /\ Len(stocks) = Len(last.before) + 1
             /\ SubSeq(stocks, 1, Len(last.before)) = last.before
             /\ stocks[Len(stocks)].ticker = Upper(last.ticker)
             /\ last.result # None
             /\ last.result \notin StoredQuotes(last.before, last.ticker)

\* C5: quote stale fallback.  While a Quote is stored for the ticker,
\* get_stock_with_cache returns neither None nor the adapter's error result;
\* when the stored Quote is older than the TTL the adapter is called, and
\* when it fails the stored Quote is returned.
C5_QuoteStaleFallback ==
    (/\ last.op = "get_stock_with_cache"
     /\ StoredQuotes(last.before, last.ticker) # {}) =>
        /\ last.result # None
        /\ ~IsError(last.result)
        /\ C4_Case =>
             /\ last.fetched
             /\ last.up = "raise" =>
                  last.result \in StoredQuotes(last.before, last.ticker)

Orchestrators ==
    { "get_news_with_cache", "get_stock_info", "get_stock_with_cache",
      "get_current_price", "get_historical_data" }

\* C6: no uncaught failure.  Whatever the upstream does and whichever store
\* requests fail, each of the five functions returns a value: no exception
\* leaves it.
C6_NoUncaughtFailure ==
    last.op \in Orchestrators => ~last.exc

C6_Witness ==
    /\ last.op = "get_stock_info"
    /\ last.fetched
    /\ last.up = "raise"
    /\ ~ReadsOk
    /\ ~last.exc
    /\ IsError(last.result)

\* What get_news_with_cache returns on an empty store when the provider
\* answers with status 'ok' and no article
ZeroArticleResult ==
    NewsFetch(<<>>, [kind |-> "ok", articles |-> <<>>], <<>>).val

\* C7 (cases): the upstream call failed and no record is stored for the key.
C7_NewsCase ==
    /\ last.op = "get_news_with_cache"
    /\ last.before = <<>>
    /\ UpstreamFailed

C7_CompanyCase ==
    /\ last.op = "get_stock_info"
    /\ StoredRows(last.before, last.ticker) = {}
    /\ last.fetched
    /\ last.up = "raise"

C7_QuoteCase ==
    /\ last.op = "get_stock_with_cache"
    /\ StoredQuotes(last.before, last.ticker) = {}

IsFallback ==
    /\ last.op \in {"get_news_with_cache", "get_stock_info"}
    /\ last.path = "fallback"

\* What a cache hit on the same store returns
HitResults ==
    IF last.op = "get_news_with_cache"
    THEN StoredBatches(last.before, last.limit)
    ELSE StoredRows(last.before, last.ticker)

C9_FailedWriteStillReturns ==
    /\ (/\ last.op = "get_news_with_cache"
        /\ last.path = "fresh"
        /\ \E i \in DOMAIN last.wr : ~last.wr[i]) =>
           /\ ~last.exc
           /\ Len(last.result) = Len(last.wr)
           /\ \A i \in DOMAIN last.result :
                  "ai_context" \in DOMAIN last.result[i]
    /\ (/\ last.op = "get_stock_info"
        /\ last.fetched
        /\ last.up = "ok"
        /\ ~last.wr) =>
           /\ ~last.exc
           /\ ~IsError(last.result)
           /\ last.result.ticker = Upper(last.ticker)
    /\ (/\ last.op = "get_stock_with_cache"
        /\ ~C3_Case) =>
           /\ last.fetched
           /\ last.up = "ok" =>
                /\ last.result # None
                /\ ~IsError(last.result)

\* C10: force-fresh.  Every get_news_with_cache call with
\* max_age_minutes = 0 calls the upstream news fetch.
C10_ForceFresh ==
    (/\ last.op = "get_news_with_cache"
     /\ last.max_age_minutes = ForceFresh) => last.fetched

\* ... also right after a successful fetch-and-store: the first cached
\* article was fetched at this very instant.
C10_Witness ==
    /\ last.op = "get_news_with_cache"
    /\ last.max_age_minutes = ForceFresh
    /\ last.cached # <<>>
    /\ last.cached[1].fetched_at = last.at
    /\ last.fetched

\* C11 (case): get_news_with_cache with max_age_minutes = -1 on a news table
\* that holds at least one article, which the first store read hands back.
C11_Case ==
    /\ last.op = "get_news_with_cache"
    /\ last.max_age_minutes = UseAnyCache
    /\ last.before # <<>>
    /\ last.rd

\* C11: force-cache.  In that case the upstream news fetch is not called,
\* whatever the age of the stored articles; when the first article's stamp
\* can be parsed, the call returns the stored articles it read, and the
\* table is unchanged.
C11_ForceCache ==
    C11_Case =>
        /\ ~last.fetched
        /\ ~last.exc
        /\ news = last.before
        /\ last.cached[1].fetched_at # BadStamp =>
             /\ last.path = "hit"
             /\ last.result # <<>>
             /\ last.result \in StoredBatches(last.before, last.limit)

C11_Witness ==
    /\ C11_Case
    /\ last.cached[1].fetched_at # BadStamp
    /\ last.at - last.cached[1].fetched_at = 90000
    /\ last.result = last.cached
    /\ ~last.fetched

\* C12: force-cache for the other kinds.  get_stock_info (which takes no
\* TTL argument, so each call is its only mode) and get_stock_with_cache
\* with the "any cached data" value return the record stored for the key
\* whatever its age, without calling the adapter.
C12_ForceCacheOtherKinds ==
    /\ (/\ last.op = "get_stock_info"
        /\ ReadsOk
        /\ StoredRows(last.before, last.ticker) # {}) =>
           /\ ~last.fetched
           /\ last.result \in StoredRows(last.before, last.ticker)
    /\ (/\ last.op = "get_stock_with_cache"
        /\ last.max_age_seconds = UseAnyCache
        /\ StoredQuotes(last.before, last.ticker) # {}) =>
           /\ ~last.fetched
           /\ last.result \in StoredQuotes(last.before, last.ticker)

\* A store whose stamps come back in the form for which the orchestrator's
\* clock reading matches: offset-qualified for news (datetime.now(tz)),
\* naive for company-info and quotes (datetime.utcnow()).
ClockMatchesNews == env.tsForm = "offset"
ClockMatchesUtcnow == env.tsForm = "naive"

\* C13: inclusive freshness boundary.  In each orchestrator the stored
\* record is served from the store exactly when its age is at most the TTL;
\* an age equal to the TTL is a hit.
C13_InclusiveBoundary ==
    /\ (/\ last.op = "get_news_with_cache"
        /\ last.max_age_minutes = DefaultMaxAgeMinutes
        /\ last.rd
        /\ last.cached # <<>>
        /\ last.cached[1].fetched_at # BadStamp
        /\ ClockMatchesNews) =>
           (last.path = "hit" <=>
              last.at - last.cached[1].fetched_at <= DefaultMaxAgeMinutes * 60)
    /\ (/\ last.op = "get_stock_info"
        /\ ReadsOk
        /\ StoredRows(last.before, last.ticker) # {}
        /\ ClockMatchesUtcnow) =>
           (last.path = "hit" <=>
              \E r \in StoredRows(last.before, last.ticker) :
                  last.at - r.last_updated <= CompanyMaxAgeHours * 3600)
    /\ (/\ last.op = "get_stock_with_cache"
        /\ last.max_age_seconds = DefaultMaxAgeSeconds
        /\ StoredQuotes(last.before, last.ticker) # {}
        /\ ClockMatchesUtcnow) =>
           (last.path = "hit" <=>
              \E q \in StoredQuotes(last.before, last.ticker) :
                  last.at - q.timestamp <= DefaultMaxAgeSeconds)

\* C14: timezone-normalized freshness.  Whatever the form of the stored
\* stamp and the server's local time zone, a news batch whose first article
\* is younger than 60 minutes and a company_info row younger than 24 hours
\* are served from the store.
C14_TimezoneNormalized ==
    /\ (/\ last.op = "get_news_with_cache"
        /\ last.max_age_minutes = DefaultMaxAgeMinutes
        /\ last.rd
        /\ last.cached # <<>>
        /\ last.cached[1].fetched_at # BadStamp
        /\ last.at - last.cached[1].fetched_at < DefaultMaxAgeMinutes * 60) =>
           last.path = "hit"
    /\ (/\ last.op = "get_stock_info"
        /\ ReadsOk
        /\ \E r \in StoredRows(last.before, last.ticker) :
               last.at - r.last_updated < CompanyMaxAgeHours * 3600) =>
           last.path = "hit"

\* C15: company-info miss then hit.  Once a row is stored for a ticker,
\* is_company_info_fresh(t, 24) is true for 24 hours, and every
\* get_stock_info(t) call within 24 hours of the row's last_updated returns
\* that row without calling upstream and without writing to the store.
C15_CompanyMissThenHit ==
    /\ \A r \in company_info :
           now - r.last_updated <= CompanyMaxAgeHours * 3600 =>
               CompanyRowIsFresh(r, CompanyMaxAgeHours)
    /\ (/\ last.op = "get_stock_info"
        /\ ReadsOk
        /\ \E r \in StoredRows(last.before, last.ticker) :
               last.at - r.last_updated <= CompanyMaxAgeHours * 3600) =>
           /\ last.path = "hit"
           /\ ~last.fetched
           /\ last.result \in StoredRows(last.before, last.ticker)
           /\ company_info = last.before

\* C16 (step): a get_news_with_cache(n, 60) call that fetched a batch and
\* stored every article of it is followed, at the same instant, by a call
\* with the same arguments whose store read succeeds.
C16_Step ==
    /\ last.op = "get_news_with_cache"
    /\ last.max_age_minutes = DefaultMaxAgeMinutes
    /\ last.path = "fresh"
    /\ \A i \in DOMAIN last.wr : last.wr[i]
    /\ ClockMatchesNews
    /\ last'.op = "get_news_with_cache"
    /\ last' # last
    /\ last'.at = last.at
    /\ last'.limit = last.limit
    /\ last'.max_age_minutes = DefaultMaxAgeMinutes
    /\ last'.rd

\* C16: news miss then hit.  The second call of such a step does not call
\* upstream and returns as many articles as the first, whatever the news
\* table held before.
C16_NewsMissThenHit ==
    [][C16_Step =>
          /\ ~last'.fetched
          /\ Len(last'.result) = Len(last.result)]_vars

\* C17: news freshness unit.  The article whose fetched_at is compared with
\* the TTL (the first of the list read from the store) carries the greatest
\* fetched_at of the stored articles.
C17_NewsFreshnessUnit ==
    (/\ last.op = "get_news_with_cache"
     /\ last.max_age_minutes # ForceFresh
     /\ last.rd
     /\ last.cached # <<>>
     /\ \A i \in DOMAIN last.before : last.before[i].fetched_at # BadStamp) =>
        \A i \in DOMAIN last.before :
            last.before[i].fetched_at <= last.cached[1].fetched_at

\* The lists one upstream fetch can give for a limit
FreshBatches(limit) ==
    {fetch_financial_news(up) : up \in NewsUpstream(limit)}

\* C18: no partial refresh.  Every result of get_news_with_cache is either
\* a list read from the store (possibly empty) or the list of one upstream
\* fetch; none mixes stored and fetched articles.
C18_NoPartialRefresh ==
    last.op = "get_news_with_cache" =>
        \/ /\ last.path # "fresh"
           /\ last.result \in StoredBatches(last.before, last.limit) \cup {<<>>}
        \/ /\ last.path = "fresh"
           /\ last.fetched
           /\ last.result \in FreshBatches(last.limit)
           /\ \A i \in DOMAIN last.result :
                  \A j \in DOMAIN last.before :
                      last.result[i] # last.before[j]

C18_Witness ==
    /\ last.op = "get_news_with_cache"
    /\ last.path = "fresh"
    /\ last.cached # <<>>
    /\ last.result \in FreshBatches(last.limit)
    /\ last.result # <<>>

\* C19 (case): get_stock_info for a ticker with no stored row, the adapter
\* succeeding.
C19_Case ==
    /\ last.op = "get_stock_info"
    /\ StoredRows(last.before, last.ticker) = {}
    /\ last.fetched
    /\ last.up = "ok"

\* C19: company-info cold fetch.  In that case the returned record's ticker
\* is the upper-cased input, and the one upsert the call makes adds exactly
\* one row, for that upper-cased ticker and stamped with the call's instant
\* (a failed upsert leaves the table as it was).
C19_CompanyColdFetch ==
    C19_Case =>
        /\ ~last.exc
        /\ ~IsError(last.result)
        /\ last.result.ticker = Upper(last.ticker)
        /\ last.wr =>
             /\ Cardinality(company_info) = Cardinality(last.before) + 1
             /\ last.before \subseteq company_info
             /\ \A r \in company_info \ last.before :
                    /\ r.ticker = Upper(last.ticker)
                    /\ r.company_name = last.result.company_name
                    /\ r.last_updated = last.at
        /\ ~last.wr => company_info = last.before

C19_Witness ==
    /\ C19_Case
    /\ last.ticker = "meta"
    /\ last.result.ticker = "META"
    /\ last.wr
    /\ \E r \in company_info : r.ticker = "META"

\* The last call wrote a row of company_info.
CompanyWrite ==
    \/ last.op = "get_stock_info" /\ last.path = "fresh" /\ last.wr
    \/ last.op = "insert_company_info" /\ last.wr

\* C20: single row per ticker.  company_info never holds two rows with the
\* same ticker, every stored ticker is upper-cased, and a write for a ticker
\* that has a row replaces it: the number of rows is unchanged and the
\* ticker's row carries the instant of the write.
C20_SingleRowPerTicker ==
    /\ \A r1, r2 \in company_info : r1.ticker = r2.ticker => r1 = r2
    /\ \A r \in company_info : r.ticker = Upper(r.ticker)
    /\ (CompanyWrite /\ StoredRows(last.before, last.ticker) # {}) =>
           /\ Cardinality(company_info) = Cardinality(last.before)
           /\ \A r \in StoredRows(company_info, last.ticker) :
                  r.last_updated = last.at

C20_Witness ==
    /\ CompanyWrite
    /\ last.op = "get_stock_info"
    /\ last.ticker = "meta"
    /\ \E r \in last.before : r.ticker = "META" /\ r.last_updated < last.at
    /\ Cardinality(StoredRows(company_info, "META")) = 1
    /\ Cardinality(company_info) = 2

CompanyOps == {"get_stock_info", "insert_company_info"}

\* C21: last_updated invariant.  Every call leaves company_info as it was
\* except for the row it wrote, and that row, whose values are those of the
\* write, carries the instant of the call as last_updated, also when the
\* company data supplies a last_updated of its own.
C21_LastUpdated ==
    last.op \in CompanyOps =>
        /\ ~CompanyWrite => company_info = last.before
        /\ \A r \in company_info \ last.before :
               /\ CompanyWrite
               /\ r.ticker = Upper(last.ticker)
               /\ r.last_updated = last.at
        /\ CompanyWrite =>
               \E r \in company_info :
                   /\ r.ticker = Upper(last.ticker)
                   /\ r.last_updated = last.at
                   /\ last.op = "insert_company_info" =>
                          r.company_name = last.data.company_name
                   /\ last.op = "get_stock_info" =>
                          r.company_name = last.result.company_name

C21_Witness ==
    /\ last.op = "insert_company_info"
    /\ last.wr
    /\ "last_updated" \in DOMAIN last.data
    /\ last.data.last_updated # last.at
    /\ \E r \in company_info :
           r.ticker = Upper(last.ticker) /\ r.last_updated = last.at


----------------------------------------------------------------------------
(* C22 *)

IsPrefix(a, b) == Len(a) <= Len(b) /\ SubSeq(b, 1, Len(a)) = a

AppendOnlyStep ==
    /\ IsPrefix(news, news')
    /\ IsPrefix(stocks, stocks')
    /\ IsPrefix(ai_insights, ai_insights')

\* No ticker that had a company row is left without one.
NoRemovalStep ==
    \A r \in company_info : \E q \in company_info' : q.ticker = r.ticker

\* C22: quote, news and insight rows are append-only.  Every step of the
\* program other than a delete_old_news call (every orchestrator call, every
\* pass-through call and every direct insert) leaves each row that was in
\* the stocks, news and ai_insights tables in place, unchanged and in its
\* position, and at most adds rows after them, and removes no company row;
\* so no read path removes rows.
C22_AppendOnly ==
    [][DeleteOldNews \/ (AppendOnlyStep /\ NoRemovalStep)]_vars

\* A refresh through get_news_with_cache added rows behind rows that were
\* already stored, and those rows are all still there as they were.
C22_Witness ==
    /\ last.op = "get_news_with_cache"
    /\ Len(last.before) > 0
    /\ Len(news) > Len(last.before)
    /\ IsPrefix(last.before, news)

----------------------------------------------------------------------------
(* C30 *)

\* C30: delete_old_news(days) removes exactly the stored news rows whose
\* fetched_at is older than the call's instant minus `days` days, leaves the
\* others as they were and returns the number removed; on a store error it
\* removes nothing and returns 0.  (Stated for tables whose fetched_at
\* stamps can all be read.)
C30_RetentionPurge ==
    (/\ last.op = "delete_old_news"
     /\ \A i \in DOMAIN last.before : last.before[i].fetched_at # BadStamp) =>
        LET cutoff == last.at - last.days * SecondsPerDay
            kept == SelectSeq(last.before,
                              LAMBDA r : ~(r.fetched_at < cutoff))
        IN IF last.wr
           THEN news = kept /\ last.result = Len(last.before) - Len(kept)
           ELSE news = last.before /\ last.result = 0

----------------------------------------------------------------------------
(* C26 *)

\* C26: a failed store operation is reported as a StoreError value that the
\* caller can tell from "no matching record".  What get_news_with_cache
\* received from a failed get_recent_news is not what a read of an empty
\* table gives, and a failed get_company_info or get_latest_stock_data for
\* a ticker that has a row does not give what a table without the ticker
\* gives.
C26_TypedStoreErrors ==
    /\ (last.op = "get_news_with_cache" /\ ~last.rd) =>
           Ret(last.cached) \notin get_recent_news(<<>>, last.limit, TRUE)
    /\ \A r \in company_info :
           get_company_info(company_info, r.ticker, FALSE)
               \cap get_company_info({}, r.ticker, TRUE) = {}
    /\ \A i \in DOMAIN stocks :
           get_latest_stock_data(stocks, stocks[i].ticker, FALSE)
               \cap get_latest_stock_data(<<>>, stocks[i].ticker, TRUE) = {}

----------------------------------------------------------------------------
(* C28, C29 *)

HasPrice(info) ==
    \/ Get(info, "currentPrice", 0) # 0
    \/ Get(info, "regularMarketPrice", 0) # 0

\* C28: when the provider's quote carries no price (neither currentPrice nor
\* regularMarketPrice), get_current_price produces no Quote: its result is
\* None.
C28_QuoteSkipSignal ==
    (/\ last.op = "get_current_price"
     /\ last.up = "ok"
     /\ ~HasPrice(last.info)) =>
        last.result = None

\* C29: for a quote with a price, change_percent is
\* (current - previous) / previous * 100 rounded to 2 decimals (the nearest
\* hundredth) when the previous close is greater than 0 (150.25 against
\* 145.00 gives 3.62), and 0.0 when it is zero, negative or missing; the
\* call ends with a quote whatever the prices are (no division by zero).
C29_PercentChange ==
    (/\ last.op = "get_current_price"
     /\ last.up = "ok"
     /\ HasPrice(last.info)) =>
        LET info == last.info
            cur == IF Get(info, "currentPrice", 0) # 0
                   THEN info.currentPrice
                   ELSE info.regularMarketPrice
            c == last.result.change_percent
            d == 10000 * (cur - info.previousClose)
                     - c * info.previousClose
        IN /\ ~IsError(last.result)
           /\ IF "previousClose" \in DOMAIN info /\ info.previousClose > 0
              THEN /\ 2 * d <= info.previousClose
                   /\ -2 * d <= info.previousClose
                   /\ (cur = 150250 /\ info.previousClose = 145000) => c = 362
              ELSE c = 0

\* The documented example, and a fall that does not land on a hundredth.
C29_Witness ==
    /\ last.op = "get_current_price"
    /\ last.up = "ok"
    /\ Get(last.info, "currentPrice", 0) = 150250
    /\ Get(last.info, "previousClose", 0) = 145000
    /\ last.result.change_percent = 362

----------------------------------------------------------------------------
(* C27 *)

WellFormed(raw) == strip(raw.title) # "" /\ strip(raw.url) # ""

\* C27: fetch_financial_news returns exactly one record for each raw article
\* of the provider's batch whose title and url are non-empty after trimming,
\* in upstream order, and drops every other article.
C27_BatchNormalization ==
    (last.op = "fetch_financial_news" /\ last.up = "ok") =>
        LET kept == SelectSeq(last.raw, WellFormed)
        IN /\ Len(last.result) = Len(kept)
           /\ \A i \in DOMAIN kept :
                  /\ last.result[i].title = strip(kept[i].title)
                  /\ last.result[i].url = kept[i].url

----------------------------------------------------------------------------
(* C23, C24 *)

InfoFresh(p) ==
    At(p, "get_stock_info", "done") /\ calls[p].path = "fresh"

\* C23: when the two callers have both missed on the same ticker, fetched
\* and sent their upsert, however their steps interleaved, company_info
\* holds exactly one row for the ticker, and that row is, field for field
\* with its last_updated, the row one of them wrote; neither call raised
\* nor returned an error result.
C23_ConcurrentCompanyRefresh ==
    \A p, q \in Callers :
        (/\ p # q
         /\ InfoFresh(p) /\ InfoFresh(q)
         /\ Upper(calls[p].ticker) = Upper(calls[q].ticker)
         /\ calls[p].wr \/ calls[q].wr) =>
            LET rows == {r \in company_info :
                           r.ticker = Upper(calls[p].ticker)}
                written == {calls[c].data : c \in {c \in {p, q} : calls[c].wr}}
            IN /\ Cardinality(rows) = 1
               /\ rows \subseteq written
               /\ \A c \in {p, q} :
                      ~calls[c].exc /\ ~IsError(calls[c].result)

\* Both callers found the same table, both missed, and both wrote, with
\* different rows.
C23_Witness ==
    /\ InfoFresh(1) /\ InfoFresh(2)
    /\ Upper(calls[1].ticker) = Upper(calls[2].ticker)
    /\ calls[1].seen = calls[2].seen
    /\ calls[1].wr /\ calls[2].wr
    /\ calls[1].data # calls[2].data

NewsCall(p) == calls[p] # Idle /\ calls[p].op = "get_news_with_cache"

\* C24: while two get_news_with_cache calls interleave, every row a call
\* found in the store stays where it was, unchanged (rows are only added
\* behind them, duplicates included); a call that fetched returns the whole
\* batch of its own fetch; and no call raises.
C24_ConcurrentNewsRefresh ==
    \A p \in Callers :
        NewsCall(p) =>
            /\ IsPrefix(calls[p].seen, news)
            /\ calls[p].pc = "done" =>
                   /\ ~calls[p].exc
                   /\ calls[p].path = "fresh" =>
                          /\ calls[p].result = calls[p].fresh_news
                          /\ calls[p].result \in
                                 {fetch_financial_news(up) :
                                    up \in NewsUpstream(calls[p].limit)}
                          /\ calls[p].result # <<>>

\* Both callers found the same store, both fetched and stored, and the store
\* ends with the same url twice.
C24_Witness ==
    /\ \A p \in Callers :
           NewsCall(p) /\ calls[p].pc = "done" /\ calls[p].path = "fresh"
    /\ calls[1].seen = calls[2].seen
    /\ \E i, j \in DOMAIN news : i < j /\ news[i].url = news[j].url

----------------------------------------------------------------------------
(* C25 *)

ApiCall(p) == calls[p] # Idle /\ calls[p].op = "get"

AllRateLimited(log) == \A i \in DOMAIN log : log[i].status = "429"

\* C25: APIClient.get makes at most `retries` requests; after a request
\* answered by HTTP 429, the k-th of the call counting from 0, it waits
\* 2^k seconds and, unless that was the last of its `retries` attempts,
\* makes the next request; when every attempt is rate-limited it returns an
\* error result after `retries` attempts.
C25_RateLimitBackoff ==
    \A p \in Callers :
        ApiCall(p) =>
            LET c == calls[p] IN
            /\ Len(c.log) <= c.retries
            /\ \A i \in DOMAIN c.log :
                   c.log[i].status = "429" =>
                       /\ i < Len(c.log) =>
                              c.log[i + 1].at - c.log[i].at = 2 ^ (i - 1)
                       /\ (i = Len(c.log) /\ i < c.retries) => c.pc # "done"
            /\ (c.pc = "done" /\ AllRateLimited(c.log)) =>
                   /\ Len(c.log) = c.retries
                   /\ IsError(c.result)

\* A call with the default three attempts, all of them rate-limited, has
\* returned its error result.
C25_Witness ==
    \E p \in Callers :
        /\ ApiCall(p) /\ calls[p].pc = "done"
        /\ calls[p].retries = DefaultRetries
        /\ Len(calls[p].log) = DefaultRetries
        /\ AllRateLimited(calls[p].log)
        /\ calls[p].log[3].at - calls[p].log[1].at = 3
        /\ calls[p].result = [error |-> "Max retries exceeded"]

----------------------------------------------------------------------------
(* C31 *)

\* C31: the batch size is not validated on a hit.  A get_news_with_cache
\* call on a store of k articles, 0 < k < limit, whose compared article (the
\* first the store returns) was fetched within the TTL returns those k
\* articles as a hit without calling upstream; and a hit never returns more
\* than `limit` articles.
C31_HitBatchSize ==
    last.op = "get_news_with_cache" =>
        /\ last.path = "hit" =>
               Len(last.result) <= last.limit /\ ~last.fetched
        /\ (/\ last.rd
            /\ last.max_age_minutes = DefaultMaxAgeMinutes
            /\ 0 < Len(last.before) /\ Len(last.before) < last.limit
            /\ last.cached[1].fetched_at # BadStamp
            /\ last.at - last.cached[1].fetched_at
                   < DefaultMaxAgeMinutes * 60) =>
               /\ last.path = "hit"
               /\ ~last.fetched
               /\ Len(last.result) = Len(last.before)
               /\ last.result \in StoredBatches(last.before, last.limit)

----------------------------------------------------------------------------
(* C32 *)

\* The quotes stored for a ticker, whatever the case of its letters
QuotesOf(table, ticker) ==
    {table[i] : i \in {i \in DOMAIN table : table[i].ticker = Upper(ticker)}}

\* C32: latest quote round trip.  get_latest_stock_data(t') returns None
\* only when no quote is stored for the ticker, and otherwise a stored quote
\* of the ticker (letter case ignored) with the greatest timestamp, which is
\* the quote inserted last when its timestamp is the greatest alone.
C32_LatestQuoteRoundTrip ==
    last.op = "get_latest_stock_data" =>
        LET quotes == QuotesOf(last.before, last.ticker) IN
        /\ ~last.exc
        /\ last.result = None <=> quotes = {}
        /\ last.result # None =>
               /\ last.result \in quotes
               /\ \A q \in quotes : q.timestamp <= last.result.timestamp

\* C33: the call db.insert_ai_insight(content=c, insight_type='daily') stores
\* one new insight with content c without raising, and
\* db.get_latest_ai_insight('daily') returns the most recently generated stored
\* insight whose insight_type is 'daily'.
DailyInsights(table) == SelectSeq(table, LAMBDA r : r.insight_type = "daily")
C33_InsightRoundTripByType ==
    /\ (last.op = "insert_ai_insight" /\ last.kwargs = ByTypeCall /\ last.wr) =>
           /\ ~last.exc
           /\ Len(ai_insights) = Len(last.before) + 1
           /\ ai_insights[Len(ai_insights)].content = ByTypeCall.content
           /\ ai_insights[Len(ai_insights)].insight_type = "daily"
    /\ (last.op = "get_latest_ai_insight" /\ last.args = <<"daily">> /\ last.rd
          /\ DailyInsights(last.before) # <<>>) =>
           last.result = DailyInsights(last.before)[Len(DailyInsights(last.before))]

\* C34: whatever the company-info, quote, history and news lookups return, the
\* dashboard handler builds its page context from their values and the
\* analysis endpoint produces a record with the keys ticker, timestamp, stock,
\* news and prompt_template that carries the news as returned; neither
\* handler fails.
C34_BestAvailableRendering ==
    /\ last.op = "dashboard" =>
          /\ ~last.exc
          /\ last.result.stock = last.stock
          /\ last.result.stock_info = last.stock_info
          /\ last.result.historical_data = last.historical_data
          /\ last.result.news = last.news
    /\ last.op = "get_analysis_data" =>
          /\ ~last.exc
          /\ DOMAIN last.result =
                {"ticker", "timestamp", "stock", "news", "prompt_template"}
          /\ last.result.ticker = last.ticker
          /\ last.result.news = last.news

\* Every lookup of an analysis request came back without data.
C34_Witness ==
    /\ last.op = "get_analysis_data"
    /\ IsError(last.stock_info)
    /\ IsError(last.stock)
    /\ last.news = <<>>
    /\ ~last.exc
    /\ last.result.stock.current_price = 0

\* C35: a call of APIClient.get ends.  It makes between zero and `retries`
\* requests, none after the first one answered with a JSON body, which it
\* returns; a call no request of which succeeded returns a dict with the key
\* 'error'.  No exception of the request leaves the call.
ApiDone(p) == ApiCall(p) /\ calls[p].pc = "done"

C35_ApiShape ==
    \A p \in Callers :
        ApiCall(p) =>
            LET c == calls[p] IN
            /\ Len(c.log) <= c.retries
            /\ \A i \in DOMAIN c.log :
                   c.log[i].status = "ok" => i = Len(c.log) /\ c.pc = "done"
            /\ c.pc = "done" =>
                   IF c.log # <<>> /\ c.log[Len(c.log)].status = "ok"
                   THEN c.result = [json |-> "body"]
                   ELSE IsError(c.result)

C35_ApiGetTerminates ==
    /\ []C35_ApiShape
    /\ \A p \in Callers : ApiCall(p) ~> ApiDone(p)

\* A call with three attempts has returned the body of its third request,
\* after a connection error and a rate-limited request.
C35_Witness ==
    \E p \in Callers :
        /\ ApiDone(p)
        /\ calls[p].retries = DefaultRetries
        /\ Len(calls[p].log) = DefaultRetries
        /\ calls[p].log[1].status = "connection"
        /\ calls[p].log[2].status = "429"
        /\ calls[p].result = [json |-> "body"]

\* C36: get_current_price and get_historical_data leave every table of the
\* store as it is and their results are those of the adapter alone: on every
\* request the quote is the one computed from the adapter's answer, the error
\* result when the adapter raises, whether or not a quote of the ticker is
\* stored; get_historical_data returns the empty list when the adapter raises.
PassThroughStep == HandlerCurrentPrice \/ HandlerHistoricalData

Request == last.op \in {"dashboard", "get_analysis_data"}

C36_Quote ==
    Request =>
        /\ last.stock_up # "none"
        /\ last.stock \in { get_current_price(last.ticker, up) :
                              up \in {u \in HandlerQuoteUpstream : u.kind = last.stock_up} }
        /\ last.stock_up = "raise" => IsError(last.stock)
        /\ last.op = "dashboard" =>
              /\ last.history_up # "none"
              /\ last.history_up = "raise" => last.historical_data = <<>>

C36_PassThroughLookups ==
    /\ []C36_Quote
    /\ [][PassThroughStep =>
             UNCHANGED <<news, company_info, stocks, ai_insights>>]_vars

\* A dashboard request served while a quote of META is stored and the adapter
\* raises for the quote and for the history
C36_Witness ==
    /\ last.op = "dashboard"
    /\ StoredQuotes(stocks, last.ticker) # {}
    /\ last.stock_up = "raise"
    /\ IsError(last.stock)
    /\ last.history_up = "raise"
    /\ last.historical_data = <<>>

\* C37: get_stock_info changes no table but company_info and
\* get_news_with_cache none but news, and each decides between hit and fetch
\* from its own table alone: the company lookup answers from the store exactly
\* when its reads succeed and the ticker's row is at most 24 hours old, the
\* news lookup exactly when its read succeeds and the first stored article
\* passes the freshness test, whatever the other table holds and whatever the
\* other lookup did before in the same request.
CompanyRowFreshAt(table, ticker, at) ==
    \E row \in StoredRows(table, ticker) :
        /\ env.tsForm = "naive"
        /\ row.last_updated # BadStamp
        /\ at - row.last_updated <= CompanyMaxAgeHours * 3600

\* The step is a call of the function `op`
CallMade(op) == last' # last /\ last'.op = op

C37_Decisions ==
    /\ last.op = "get_stock_info" =>
          (last.path = "hit" <=>
              /\ last.rd[1]
              /\ CompanyRowFreshAt(last.before, last.ticker, last.at)
              /\ Len(last.rd) >= 2
              /\ last.rd[2])
    /\ last.op = "get_news_with_cache" =>
          (last.path = "hit" <=>
              /\ last.rd
              /\ last.cached # <<>>
              /\ last.max_age_minutes # ForceFresh
              /\ NewsCacheIsFresh(last.cached[1], last.max_age_minutes) = Ret(TRUE))

C37_IndependentKinds ==
    /\ []C37_Decisions
    /\ [][/\ CallMade("get_stock_info") => UNCHANGED <<news, stocks, ai_insights>>
          /\ CallMade("get_news_with_cache") =>
                 UNCHANGED <<company_info, stocks, ai_insights>>]_vars

\* In one request the company lookup has stored a row for a ticker that had
\* none and the news lookup that follows answers from the store.
C37_Witness ==
    /\ last.op = "get_news_with_cache"
    /\ last.path = "hit"
    /\ At(1, "dashboard", "news")
    /\ Handler.stock_info # None
    /\ ~IsError(Handler.stock_info)
    /\ Cardinality(company_info) = 1
    /\ news = last.before

\* C38: a get_news_with_cache call with max_age_minutes = 0 whose fetch brought
\* no article (the provider failed or none of its articles was valid) returns,
\* when the news table holds articles, the stored articles and writes nothing;
\* it returns the empty list only when the news table is empty.
NothingFetched == last.fetched /\ last.path \in {"fallback", "empty"}

C38_ForceFreshFallback ==
    (/\ last.op = "get_news_with_cache"
     /\ last.max_age_minutes = ForceFresh
     /\ NothingFetched) =>
        /\ ~last.exc
        /\ news = last.before
        /\ last.before # <<>> =>
               /\ last.result # <<>>
               /\ last.result \in StoredBatches(last.before, last.limit)
        /\ last.result = <<>> => last.before = <<>>

\* C39 (case): the first store read of a get_news_with_cache call hands back
\* articles, the first of which has a fetched_at that cannot be parsed, and
\* max_age_minutes is not 0.
C39_Case ==
    /\ last.op = "get_news_with_cache"
    /\ last.max_age_minutes # ForceFresh
    /\ last.cached # <<>>
    /\ last.cached[1].fetched_at = BadStamp

\* C39: unparsable stamp pins the news cache.  In that case, for every TTL
\* value and at every instant, the call makes no upstream call and no store
\* write and returns what the store hands back, the stored articles when the
\* reads of the exception fallback succeed.  The call leaves the table as it
\* found it, so every later call that reads that article first is in the same
\* case: none of them refreshes the table.
C39_UnparsableStampPins ==
    C39_Case =>
        /\ ~last.exc
        /\ ~last.fetched
        /\ last.up = "none"
        /\ news = last.before
        /\ last.path = "except"
        /\ last.reread = <<TRUE, TRUE>> =>
               /\ last.result # <<>>
               /\ last.result \in StoredBatches(last.before, last.limit)

\* A call with the default TTL, long after the article was stored, is answered
\* with the stored article.
C39_Witness ==
    /\ C39_Case
    /\ last.at = 90000
    /\ last.max_age_minutes = DefaultMaxAgeMinutes
    /\ last.reread = <<TRUE, TRUE>>
    /\ last.result = last.before
    /\ ~last.fetched

\* C40 (case): get_stock_info for a ticker whose row is missing, or is older
\* than 24 hours.
C40_MissingOrStale ==
    /\ last.op = "get_stock_info"
    /\ \A row \in StoredRows(last.before, last.ticker) :
           /\ row.last_updated # BadStamp
           /\ last.at - row.last_updated > CompanyMaxAgeHours * 3600

\* The record of a profile that carries none of the fields
DefaultCompanyRecord(ticker) ==
    [ticker |-> Upper(ticker), company_name |-> "N/A", sector |-> "N/A",
     industry |-> "N/A", market_cap |-> 0, pe_ratio |-> 0,
     description |-> "N/A", website |-> "N/A"]

\* The record of the full profile
FullCompanyRecord(ticker) ==
    [ticker |-> Upper(ticker), company_name |-> "Meta Platforms Inc",
     sector |-> "Technology", industry |-> "Internet Content",
     market_cap |-> 1200, pe_ratio |-> 2550,
     description |-> "Social media company", website |-> "https://meta.com"]

\* C40: any non-raising upstream profile counts as success.  In that case the
\* profile lookup is made, and when it returns without raising the call
\* returns the normalized record, 'N/A' or 0 standing for each field the
\* profile lacks, and makes one upsert, after which the ticker has exactly one
\* row: the returned record stamped with the instant of the call, whatever
\* the row held before (a failed upsert request leaves the table as it was).
C40_AnyProfileIsSuccess ==
    C40_MissingOrStale =>
        /\ last.fetched
        /\ last.up = "ok" =>
              /\ ~last.exc
              /\ last.path = "fresh"
              /\ last.result \in {DefaultCompanyRecord(last.ticker),
                                  FullCompanyRecord(last.ticker)}
              /\ last.wr =>
                    company_info =
                        {r \in last.before : r.ticker # Upper(last.ticker)}
                        \cup {[last_updated |-> last.at] @@ last.result}
              /\ ~last.wr => company_info = last.before

\* The stored row of a full profile, more than 24 hours old, has been replaced
\* by the defaults of an empty profile.
C40_Witness ==
    /\ C40_MissingOrStale
    /\ last.up = "ok"
    /\ last.wr
    /\ \E row \in StoredRows(last.before, last.ticker) :
           row.company_name = "Meta Platforms Inc" /\ row.market_cap = 1200
    /\ last.result = DefaultCompanyRecord(last.ticker)
    /\ StoredRows(company_info, last.ticker) =
           {[last_updated |-> last.at] @@ DefaultCompanyRecord(last.ticker)}

====
